---- MODULE Spec2Model ----
(***************************************************************************)
(* Orbit agent orchestration core: OrchestratorService (install_agent,     *)
(* process_event and its helpers), ToolExecutor (execute_tool,             *)
(* approve_tool_execution), the CacheService keys they use and the HTTP    *)
(* routes that call them.                                                  *)
(*                                                                         *)
(* Every request runs in a worker with a database session of its own: the  *)
(* session holds the rows it added or changed until db.commit() publishes  *)
(* them; a request that ends by an exception never commits, so what its     *)
(* session held is lost.  A query sees the committed rows and the rows of   *)
(* its own session.  uuid4() and datetime.utcnow() are counters.           *)
(***************************************************************************)
EXTENDS Integers, Sequences, FiniteSets, TLC

\* ------------------------------------------------------------------ bounds
NumWorkers == 2
MaxRequests == 3
MaxConcRequests == 2
MaxFairRequests == 2

\* ------------------------------------------------------- program constants
max_event_hops == 10
recent_events_limit == 10

Null == "null"
EmptyMap == <<>>
Workers == 1..NumWorkers
Users == {"u1", "u2"}
\* The event requests tried: (event_type, payload).
EventRequests ==
  {<<"ping", "p0">>, <<"ping", "bad">>, <<"pong", "p0">>, <<"job", "p0">>,
   <<"job", "opt">>, <<"tick", "p0">>, <<"health_goal_updated", "p0">>}

\* The users an event request is tried for.
EventUsers(q) == IF q = <<"ping", "p0">> THEN Users ELSE {"u1"}
\* The users who review tool executions.
Reviewers == {"u1"}

\* --------------------------------------------------------------- mappings
\* The keys under which the handlers write a mapping.
NestedKeys == {"n", "last"}

DictUpdate_deep(current, patch) ==
  [k \in (DOMAIN current) \cup (DOMAIN patch) |->
     IF k \in (DOMAIN patch) \cap (DOMAIN current) \cap NestedKeys
     THEN [j \in (DOMAIN current[k]) \cup (DOMAIN patch[k]) |->
             IF j \in DOMAIN patch[k] THEN patch[k][j] ELSE current[k][j]]
     ELSE IF k \in DOMAIN patch THEN patch[k] ELSE current[k]]

\* dict.update(patch): the keys of the patch overwrite, the others stay.
DictUpdate(current, patch) ==
  [k \in (DOMAIN current) \cup (DOMAIN patch) |->
     IF k \in DOMAIN patch THEN patch[k] ELSE current[k]]

\* Rows written by a session laid over the committed rows of one table.
Overlay(committed, pending) ==
  [k \in (DOMAIN committed) \cup (DOMAIN pending) |->
     IF k \in DOMAIN pending THEN pending[k] ELSE committed[k]]

\* ------------------------------------------------ agent catalogue (plugins)
\* The agent_manifests table: rows keyed by (agent_id, version).
ManifestKeys ==
  {<<"A", "1.0.0">>, <<"B", "1.0.0">>, <<"Z", "1.0.0">>, <<"N", "1.0.0">>,
   <<"D", "1.0.0">>, <<"Y", "1.0.0">>, <<"T", "1.0.0">>,
   <<"health_goal_agent", "1.0.0">>, <<"cooking_agent", "1.0.0">>,
   <<"reminder_agent", "1.0.0">>}

ManifestStatus(key) == IF key[1] = "D" THEN "deprecated" ELSE "active"

\* AgentManifest.manifest, the descriptor of an agent.
Manifest(agent_id) ==
  CASE agent_id = "A" ->
         [subscribed_events |-> {"ping"}, write_shared_context |-> TRUE,
          tools |-> {}]
    [] agent_id = "B" ->
         [subscribed_events |-> {"ping", "pong"}, write_shared_context |-> TRUE,
          tools |-> {}]
    [] agent_id = "Z" ->
         [subscribed_events |-> {"job"}, write_shared_context |-> FALSE,
          tools |-> {"notify", "pay"}]
    [] agent_id = "Y" ->
         [subscribed_events |-> {"pong"}, write_shared_context |-> FALSE,
          tools |-> {}]
    [] agent_id = "T" ->
         [subscribed_events |-> {"tick"}, write_shared_context |-> FALSE,
          tools |-> {}]
    [] agent_id = "health_goal_agent" ->
         [subscribed_events |-> {}, write_shared_context |-> TRUE,
          tools |-> {}]
    [] agent_id = "cooking_agent" ->
         [subscribed_events |-> {"health_goal_updated"},
          write_shared_context |-> TRUE, tools |-> {"create_meal_plan"}]
    [] agent_id = "reminder_agent" ->
         [subscribed_events |-> {"meal_plan_created"},
          write_shared_context |-> FALSE, tools |-> {"send_notification"}]
    [] OTHER ->
         [subscribed_events |-> {"ping"}, write_shared_context |-> TRUE,
          tools |-> {}]

\* OrchestratorService._agent_registry: the agents the process registered.
AgentRegistry == {<<"A", "1.0.0">>, <<"B", "1.0.0">>, <<"Z", "1.0.0">>,
                  <<"D", "1.0.0">>, <<"Y", "1.0.0">>, <<"T", "1.0.0">>,
                  <<"health_goal_agent", "1.0.0">>, <<"cooking_agent", "1.0.0">>,
                  <<"reminder_agent", "1.0.0">>}

\* AgentResult(): every field at its default.
AgentResult ==
  [raised |-> FALSE, shared_context_updates |-> EmptyMap,
   agent_memory_updates |-> EmptyMap, events |-> <<>>, tool_executions |-> <<>>,
   status |-> "completed", error |-> Null]

SDKEvent(event_type, source_agent, payload) ==
  [event_type |-> event_type, source_agent |-> source_agent, payload |-> payload]

\* BaseAgent.handle_event of the registered agents: the outcomes a call may
\* have.  A raises on a payload it cannot read; B and Z always answer, B with
\* a nested mapping under the keys n and last, Z with a result whose status
\* is failed or pending_approval; T answers a tick with a tick;
\* CookingAgent and ReminderAgent are those of sdk/examples.py; the others
\* answer with the empty result.
handle_event(agent_id, event, context) ==
  CASE agent_id = "A" /\ event.event_type = "ping" /\ event.payload = "bad" ->
         {[AgentResult EXCEPT !.raised = TRUE]}
    [] agent_id = "A" /\ event.event_type = "ping" /\ event.payload # "bad" ->
         {[AgentResult EXCEPT
             !.shared_context_updates = ("a" :> "A"),
             !.agent_memory_updates = ("seen" :> "A"),
             !.events = <<SDKEvent("pong", "forged", "pA")>>]}
    [] agent_id = "B" /\ event.event_type = "pong" ->
         {[AgentResult EXCEPT
             !.shared_context_updates = ("b" :> "B") @@ ("n" :> ("x" :> "B")),
             !.agent_memory_updates =
                ("seen" :> "B") @@ ("last" :> ("pong" :> "B")),
             !.events = <<SDKEvent("ping", Null, "pB"),
                          SDKEvent("echo", Null, "pB")>>]}
    [] agent_id = "B" /\ event.event_type = "ping" ->
         {[AgentResult EXCEPT
             !.shared_context_updates = ("b" :> "B") @@ ("n" :> ("y" :> "B")),
             !.agent_memory_updates =
                ("seen" :> "B") @@ ("last" :> ("ping" :> "B"))]}
    [] agent_id = "Z" /\ event.event_type = "job" /\ event.payload # "opt" ->
         {[AgentResult EXCEPT
             !.shared_context_updates = ("z" :> "Z"),
             !.agent_memory_updates = ("seen" :> "Z"),
             !.events = <<SDKEvent("done", Null, "pZ")>>,
             !.status = "failed", !.error = "soft",
             !.tool_executions = <<[tool_id |-> "notify", payload |-> "n"],
                                   [tool_id |-> "pay", payload |-> "p"]>>]}
    [] agent_id = "Z" /\ event.event_type = "job" /\ event.payload = "opt" ->
         {[AgentResult EXCEPT
             !.status = "pending_approval",
             !.tool_executions = <<[tool_id |-> "ask", payload |-> "a"],
                                   [tool_id |-> "ghost", payload |-> "g"],
                                   [tool_id |-> "nope", payload |-> "x"]>>]}
    [] agent_id = "T" /\ event.event_type = "tick" ->
         {[AgentResult EXCEPT !.events = <<SDKEvent("tick", "T", "pT")>>]}
    [] agent_id = "cooking_agent" /\ event.event_type = "health_goal_updated" ->
         {[AgentResult EXCEPT
             !.tool_executions = <<[tool_id |-> "create_meal_plan",
                                    payload |-> "plan"]>>,
             !.events = <<SDKEvent("meal_plan_created", "cooking_agent",
                                   "pending")>>]}
    [] agent_id = "reminder_agent" /\ event.event_type = "meal_plan_created" ->
         {[AgentResult EXCEPT
             !.tool_executions = <<[tool_id |-> "send_notification",
                                    payload |-> "reminder"]>>,
             !.events = <<SDKEvent("reminder_sent", "reminder_agent", "sent")>>]}
    [] OTHER -> {AgentResult}

\* BaseAgent.onboard: the initial agent_memory, or an exception.
onboard(agent_id, inputs, initial_context) ==
  IF inputs = "bad" THEN {[raised |-> TRUE, agent_memory |-> EmptyMap]}
  ELSE {[raised |-> FALSE, agent_memory |-> ("inputs" :> inputs)]}

\* ------------------------------------------------------------ tool catalogue
\* The tool_definitions table: tool_id -> requires_human_approval ("true",
\* "false" or "optional").  "ghost" is defined without an implementation.
ToolDefinitions ==
  ("notify" :> "false") @@ ("pay" :> "true") @@ ("ask" :> "optional")
  @@ ("ghost" :> "false") @@ ("create_meal_plan" :> "false")
  @@ ("send_notification" :> "false")

\* ToolRegistry._tools: the implementations the process registered.
ToolRegistry == {"notify", "pay", "ask", "create_meal_plan", "send_notification"}

\* Tool.execute(payload): a result, or an exception; CreateMealPlanTool and
\* SendNotificationTool return their result for every payload.
ToolOutcomes(tool_id) ==
  IF tool_id \in {"create_meal_plan", "send_notification"} THEN {"ok"}
  ELSE {"ok", "raise"}

\* ------------------------------------------------------------------- state
VARIABLES
  db,           \* the committed rows of every table
  sess,         \* per worker: the rows its session added or changed, uncommitted
  cache,        \* the Redis keys installations:{user_id} and manifest:{id}:{version},
                \* and the keys deleted so far
  wk,           \* per worker: the request it serves and where it is in it
  ctr,          \* uuid4()/utcnow(): the last event, installation and execution ids
  calls,        \* history: every agent.handle_event invocation
  toolRuns,     \* history: every Tool.execute invocation
  onboardCalls, \* history: every agent.onboard invocation
  responses,    \* history: how every ended request answered
  nReq,         \* requests started so far
  mode          \* how requests arrive: how many, and whether they may overlap

vars == <<db, sess, cache, wk, ctr, calls, toolRuns, onboardCalls, responses,
          nReq, mode>>

\* A session with nothing pending: Session() of a new request, or after commit.
EmptySession ==
  [installations |-> <<>>, memory |-> <<>>, shared |-> <<>>, events |-> <<>>,
   traces |-> <<>>, execs |-> <<>>, approvals |-> <<>>]

Commit_losing_events(d, s) ==
  [installations |-> d.installations \o s.installations,
   memory |-> Overlay(d.memory, s.memory),
   shared |-> Overlay(d.shared, s.shared),
   events |-> s.events,
   traces |-> d.traces \o s.traces,
   execs |-> Overlay(d.execs, s.execs),
   approvals |-> d.approvals \o s.approvals]

\* Session.commit(): the pending rows become the committed ones.
Commit(d, s) ==
  [installations |-> d.installations \o s.installations,
   memory |-> Overlay(d.memory, s.memory),
   shared |-> Overlay(d.shared, s.shared),
   events |-> d.events \o s.events,
   traces |-> d.traces \o s.traces,
   execs |-> Overlay(d.execs, s.execs),
   approvals |-> d.approvals \o s.approvals]

Rollback_committing(d, s) == Commit(d, s)

\* A request ended by an exception: its session is closed without a commit
\* and the rows it had flushed are gone.
Rollback(d, s) == d

\* What the queries of a session see.
ViewInstallations(s) == db.installations \o s.installations
ViewMemory(s) == Overlay(db.memory, s.memory)
ViewShared(s) == Overlay(db.shared, s.shared)
ViewEvents(s) == db.events \o s.events
ViewExecs(s) == Overlay(db.execs, s.execs)

Range(seq) == {seq[i] : i \in DOMAIN seq}
Top(stack) == stack[Len(stack)]
Pop(stack) == SubSeq(stack, 1, Len(stack) - 1)
SetTop(stack, f) == [stack EXCEPT ![Len(stack)] = f]
ManifestKey(installation) == <<installation.agent_id, installation.version>>

\* order_by(Event.created_at.desc()).limit(n) over a set of event rows: the
\* i-th row is the one with i - 1 rows newer than it.
NewestFirst(rows, n) ==
  LET m == IF Cardinality(rows) < n THEN Cardinality(rows) ELSE n
  IN  [i \in 1..m |->
         CHOOSE x \in rows :
           Cardinality({y \in rows : y.created_at > x.created_at}) = i - 1]

\* ------------------------------------------------------------- cache service
CacheMiss == [present |-> FALSE, value |-> <<>>]
CacheHit(value) == [present |-> TRUE, value |-> value]

\* CacheService.invalidate_user_installations: redis delete of the key
\* installations:{user_id}; deleted is the list of the keys deleted so far.
invalidate_user_installations(ch, user_id) ==
  [ch EXCEPT !.installations[user_id] = CacheMiss,
             !.deleted = Append(@, <<"installations", user_id>>)]

\* CacheService.set_user_installations
set_user_installations(ch, user_id, installations) ==
  [ch EXCEPT !.installations[user_id] = CacheHit(installations)]

\* CacheService.get_user_installations: the value of the key, or None when
\* the key is not there: never set, deleted, or past its TTL of 300 s.
get_user_installations(ch, user_id, expired) ==
  IF expired THEN CacheMiss ELSE ch.installations[user_id]

\* ------------------------------------------------------------- orchestrator
subscribed_to_any(manifest_key, event_type) ==
  manifest_key \in ManifestKeys

\* _get_subscribed_installations, its filter: the manifest is found and the
\* event type is one of its subscribed_events.
subscribed_to(manifest_key, event_type) ==
  /\ manifest_key \in ManifestKeys
  /\ event_type \in Manifest(manifest_key[1]).subscribed_events

get_subscribed_installations_any_user(s, ch, user_id, event_type, expired) ==
  LET cached == get_user_installations(ch, user_id, expired)
      hit == cached.present /\ cached.value # <<>>
      installations ==
        IF hit THEN cached.value
        ELSE SelectSeq(ViewInstallations(s),
                       LAMBDA x : x.status = "active")
  IN  [subscribed |->
         SelectSeq(installations,
                   LAMBDA x : subscribed_to(ManifestKey(x), event_type)),
       installations |-> installations, hit |-> hit]

\* OrchestratorService._get_subscribed_installations, its reads: the
\* installation list from the cache or, when the cache gives none (or an
\* empty one), from the table; the installations whose manifest lists the
\* event type.
get_subscribed_installations(s, ch, user_id, event_type, expired) ==
  LET cached == get_user_installations(ch, user_id, expired)
      hit == cached.present /\ cached.value # <<>>
      installations ==
        IF hit THEN cached.value
        ELSE SelectSeq(ViewInstallations(s),
                       LAMBDA x : x.user_id = user_id /\ x.status = "active")
  IN  [subscribed |->
         SelectSeq(installations,
                   LAMBDA x : subscribed_to(ManifestKey(x), event_type)),
       installations |-> installations, hit |-> hit]

\* OrchestratorService._build_agent_context: profile, shared context, the
\* installation's memory, and the user's ten newest events.
build_agent_context(s, installation) ==
  LET shared == ViewShared(s)[installation.user_id]
      memory == ViewMemory(s)
      mine == {e \in Range(ViewEvents(s)) : e.user_id = installation.user_id}
  IN  [shared_context |-> IF shared.present THEN shared.context ELSE EmptyMap,
       agent_memory |-> IF installation.id \in DOMAIN memory
                        THEN memory[installation.id] ELSE EmptyMap,
       recent_events |-> NewestFirst(mine, recent_events_limit)]

\* OrchestratorService._apply_context_updates: a non-empty
\* shared_context_updates is merged into the user's shared context (the row
\* is created when missing), a non-empty agent_memory_updates into the
\* installation's memory.
apply_context_updates(s, installation, result) ==
  LET shared == ViewShared(s)[installation.user_id]
      memory == ViewMemory(s)
      s1 == IF result.shared_context_updates = EmptyMap THEN s
            ELSE [s EXCEPT !.shared =
                    Overlay(@, installation.user_id :>
                      [present |-> TRUE,
                       context |->
                         IF shared.present
                         THEN DictUpdate(shared.context, result.shared_context_updates)
                         ELSE result.shared_context_updates])]
  IN  IF result.agent_memory_updates = EmptyMap THEN s1
      ELSE [s1 EXCEPT !.memory =
              Overlay(@, installation.id :>
                IF installation.id \in DOMAIN memory
                THEN DictUpdate(memory[installation.id], result.agent_memory_updates)
                ELSE result.agent_memory_updates)]

\* An execution_traces row; as history, the statuses it was given, in order.
ExecutionTrace(event, installation, status, error) ==
  [event_id |-> event.id, agent_id |-> installation.agent_id,
   installation_id |-> installation.id, status |-> status, error |-> error,
   history |-> <<status>>]

finish_trace_never(trace, status, error) == trace

\* _execute_agent, after the handler: "trace.status = 'completed'", or in its
\* except branch "trace.status = 'failed'" with the error.
finish_trace(trace, status, error) ==
  [trace EXCEPT !.status = status, !.error = error, !.history = Append(@, status)]

\* OrchestratorService._get_subscribed_installations, its cache writes: the
\* list that was read from the table goes into the cache, and each manifest
\* read goes into it.
cache_installations(ch, user_id, installations, hit) ==
  LET ch1 == IF hit THEN ch
             ELSE set_user_installations(ch, user_id, installations)
      found == {ManifestKey(x) : x \in Range(installations)} \cap ManifestKeys
  IN  [ch1 EXCEPT !.manifests = @ \cup found]

\* _execute_agent: the trace added as running and flushed, then finished.
traced(event, installation, status, error) ==
  finish_trace(ExecutionTrace(event, installation, "running", Null), status, error)

\* The frame of one process_event call: its arguments and locals (i, t and c
\* are the positions of its three loops; listed is the installation list it
\* read and hit whether the cache gave it), and as history shared0, the
\* user's shared-context row when the call began.
Frame(event, installations, shared0) ==
  [user_id |-> event.user_id, event_type |-> event.event_type,
   source_agent |-> event.source_agent, event_hop |-> event.event_hop,
   event |-> event, installations |-> installations, i |-> 1,
   result |-> AgentResult, t |-> 1, new_events |-> <<>>, c |-> 1,
   listed |-> <<>>, hit |-> TRUE, shared0 |-> shared0]

max_hops_reached_late(event_hop) == event_hop > max_event_hops
max_hops_reached_at_two(event_hop) == event_hop >= 2

\* process_event, its guard: "if event_hop >= self._max_event_hops".
max_hops_reached(event_hop) == event_hop >= max_event_hops

\* OrchestratorService.process_event up to the cache writes of
\* _get_subscribed_installations: the hop guard, the event added and flushed,
\* the installation list read and the subscribed installations resolved.
process_event(s, ch, ids, user_id, event_type, payload, source_agent, event_hop, expired) ==
  IF max_hops_reached(event_hop)
  THEN [raised |-> TRUE, sess |-> s, ctr |-> ids,
        frame |-> Frame([id |-> 0, user_id |-> user_id, event_type |-> event_type,
                         source_agent |-> source_agent, payload |-> payload,
                         created_at |-> 0, event_hop |-> event_hop], <<>>,
                        ViewShared(s)[user_id])]
  ELSE LET event == [id |-> ids.event + 1, user_id |-> user_id,
                     event_type |-> event_type, source_agent |-> source_agent,
                     payload |-> payload, created_at |-> ids.event + 1,
                     event_hop |-> event_hop]
           s1 == [s EXCEPT !.events = Append(@, event)]
           got == get_subscribed_installations(s1, ch, user_id, event_type, expired)
       IN  [raised |-> FALSE, sess |-> s1,
            ctr |-> [ids EXCEPT !.event = @ + 1],
            frame |-> [Frame(event, got.subscribed, ViewShared(s)[user_id])
                         EXCEPT !.listed = got.installations, !.hit = got.hit]]

\* ------------------------------------------------------------ tool executor
\* A tool_executions row; as history, the statuses it was given, in order.
ToolExecution(id, user_id, agent_id, installation_id, tool_id, payload, status) ==
  [id |-> id, user_id |-> user_id, agent_id |-> agent_id,
   installation_id |-> installation_id, tool_id |-> tool_id,
   payload |-> payload, status |-> status, history |-> <<status>>]

\* "execution.status = ...".
set_status(execution, status) ==
  [execution EXCEPT !.status = status, !.history = Append(@, status)]

\* ToolExecutor._execute_tool_internal: the execution goes to executing; the
\* registered implementation runs and it becomes completed; with no
\* implementation, or when the implementation raises, it becomes failed and
\* the exception is raised again.
execute_tool_internal(s, runs, execution_id, outcome) ==
  LET execution == set_status(ViewExecs(s)[execution_id], "executing")
      set(status) ==
        [s EXCEPT !.execs =
           Overlay(@, execution_id :> set_status(execution, status))]
  IN  IF execution.tool_id \notin ToolRegistry
      THEN [raised |-> TRUE, sess |-> set("failed"), toolRuns |-> runs]
      ELSE [raised |-> outcome = "raise",
            sess |-> set(IF outcome = "raise" THEN "failed" ELSE "completed"),
            toolRuns |-> Append(runs, [execution_id |-> execution_id,
                                       outcome |-> outcome])]

\* execute_tool: "requires_approval = tool_def.requires_human_approval == 'true'".
requires_approval(requires_human_approval) == requires_human_approval = "true"

tool_not_found_committing(d, s, ids, runs) ==
  [raised |-> TRUE, db |-> Commit(d, s), sess |-> EmptySession, ctr |-> ids,
   toolRuns |-> runs]

\* execute_tool, "if not tool_def: raise ValueError": raised before a row is
\* added, an id drawn or the session committed.
tool_not_found(d, s, ids, runs) ==
  [raised |-> TRUE, db |-> d, sess |-> s, ctr |-> ids, toolRuns |-> runs]

\* ToolExecutor.execute_tool: ToolNotFound without a definition; else a
\* pending execution is added and flushed; a definition whose
\* requires_human_approval is "true" leaves it pending, any other runs it at
\* once; then the session is committed.  An exception of the run leaves
\* execute_tool before the commit.
execute_tool(d, s, ids, runs, user_id, agent_id, installation_id, tool_id, payload, outcome) ==
  IF tool_id \notin DOMAIN ToolDefinitions
  THEN tool_not_found(d, s, ids, runs)
  ELSE LET id == ids.exec + 1
           s1 == [s EXCEPT !.execs =
                    Overlay(@, id :> ToolExecution(id, user_id, agent_id,
                                       installation_id, tool_id, payload,
                                       "pending"))]
           ids1 == [ids EXCEPT !.exec = id]
           run == execute_tool_internal(s1, runs, id, outcome)
       IN  IF requires_approval(ToolDefinitions[tool_id])
           THEN [raised |-> FALSE, db |-> Commit(d, s1), sess |-> EmptySession,
                 ctr |-> ids1, toolRuns |-> runs]
           ELSE IF run.raised
           THEN [raised |-> TRUE, db |-> d, sess |-> run.sess, ctr |-> ids1,
                 toolRuns |-> run.toolRuns]
           ELSE [raised |-> FALSE, db |-> Commit(d, run.sess),
                 sess |-> EmptySession, ctr |-> ids1, toolRuns |-> run.toolRuns]

\* ---------------------------------------------------------------- requests
Req(op, user_id, agent_id, version, event_type, execution_id, decision) ==
  [op |-> op, user_id |-> user_id, agent_id |-> agent_id, version |-> version,
   event_type |-> event_type, execution_id |-> execution_id,
   decision |-> decision]

NoReq == Req("none", Null, Null, Null, Null, 0, Null)
Idle == [pc |-> "idle", stack |-> <<>>, req |-> NoReq]

\* A worker takes a request: any idle worker when requests may overlap, else
\* worker 1 alone, and then the others are never busy.
CanStart(w) ==
  /\ wk[w].pc = "idle"
  /\ nReq < mode.requests
  /\ mode.overlap \/ w = 1

\* The request ends; whatever its session still holds is dropped with it.
Respond(w, result) ==
  /\ responses' = Append(responses, [req |-> wk[w].req, result |-> result])
  /\ wk' = [wk EXCEPT ![w] = Idle]
  /\ sess' = [sess EXCEPT ![w] = EmptySession]

\* routes.create_event: process_event(source_agent=None) at hop 0.
create_event(w) ==
  /\ CanStart(w)
  /\ \E q \in EventRequests, expired \in BOOLEAN : \E user_id \in EventUsers(q) :
       LET event_type == q[1]
           r == process_event(EmptySession, cache, ctr, user_id, event_type,
                              q[2], Null, 0, expired)
       IN  /\ sess' = [sess EXCEPT ![w] = r.sess]
           /\ ctr' = r.ctr
           /\ wk' = [wk EXCEPT ![w] =
                       [pc |-> "fill", stack |-> <<r.frame>>,
                        req |-> Req("create_event", user_id, Null, Null,
                                    event_type, 0, Null)]]
  /\ nReq' = nReq + 1
  /\ UNCHANGED <<db, cache, calls, toolRuns, onboardCalls, responses, mode>>

\* _get_subscribed_installations after its reads: set_user_installations
\* with the list read from the table, the manifests into the cache; then the
\* loop over the subscribed installations begins.
fill_cache(w) ==
  /\ wk[w].pc = "fill"
  /\ LET f == Top(wk[w].stack)
     IN  /\ cache' = cache_installations(cache, f.user_id, f.listed, f.hit)
         /\ wk' = [wk EXCEPT ![w].stack = SetTop(@, [f EXCEPT !.listed = <<>>, !.hit = TRUE]),
                             ![w].pc = "agents"]
  /\ UNCHANGED <<db, sess, ctr, calls, toolRuns, onboardCalls, responses, nReq,
                 mode>>

Collect_unstamped(installation, result) ==
  [k \in DOMAIN result.events |->
     [event_type |-> result.events[k].event_type,
      payload |-> result.events[k].payload,
      source_agent |-> result.events[k].source_agent]]

\* The events of a result, stamped with the installation's agent_id.
Collect(installation, result) ==
  [k \in DOMAIN result.events |->
     [event_type |-> result.events[k].event_type,
      payload |-> result.events[k].payload,
      source_agent |-> installation.agent_id]]

\* execute_agent with the exception of a handler ending the loop.
execute_agent_abort(s, f, installation, out) ==
  LET event == f.event
  IN  IF out.raised
      THEN [sess |-> [s EXCEPT !.traces =
                        @ \o <<traced(event, installation, "failed", "handler")>>
                          \o <<ExecutionTrace(event, installation, "failed", "handler")>>],
            frame |-> [f EXCEPT !.i = Len(f.installations) + 1], pc |-> "agents"]
      ELSE LET s1 == [s EXCEPT !.traces =
                        Append(@, traced(event, installation, "completed", Null))]
               s2 == apply_context_updates(s1, installation, out)
           IN  IF out.tool_executions # <<>>
               THEN [sess |-> s2,
                     frame |-> [f EXCEPT !.result = out, !.t = 1], pc |-> "tools"]
               ELSE [sess |-> s2,
                     frame |-> [f EXCEPT !.i = @ + 1,
                                  !.new_events = @ \o Collect(installation, out)],
                     pc |-> "agents"]

execute_agent_by_status(s, f, installation, out) ==
  LET event == f.event
  IN  IF out.raised \/ out.status # "completed"
      THEN [sess |-> [s EXCEPT !.traces =
                        @ \o <<traced(event, installation, "failed", "handler")>>
                          \o <<ExecutionTrace(event, installation, "failed", "handler")>>],
            frame |-> [f EXCEPT !.i = @ + 1], pc |-> "agents"]
      ELSE LET s1 == [s EXCEPT !.traces =
                        Append(@, traced(event, installation, "completed", Null))]
               s2 == apply_context_updates(s1, installation, out)
           IN  IF out.tool_executions # <<>>
               THEN [sess |-> s2,
                     frame |-> [f EXCEPT !.result = out, !.t = 1], pc |-> "tools"]
               ELSE [sess |-> s2,
                     frame |-> [f EXCEPT !.i = @ + 1,
                                  !.new_events = @ \o Collect(installation, out)],
                     pc |-> "agents"]

execute_agent_one_trace(s, f, installation, out) ==
  LET event == f.event
  IN  IF out.raised
      THEN [sess |-> [s EXCEPT !.traces =
                        Append(@, traced(event, installation, "failed", "handler"))],
            frame |-> [f EXCEPT !.i = @ + 1], pc |-> "agents"]
      ELSE LET s1 == [s EXCEPT !.traces =
                        Append(@, traced(event, installation, "completed", Null))]
               s2 == apply_context_updates(s1, installation, out)
           IN  IF out.tool_executions # <<>>
               THEN [sess |-> s2,
                     frame |-> [f EXCEPT !.result = out, !.t = 1], pc |-> "tools"]
               ELSE [sess |-> s2,
                     frame |-> [f EXCEPT !.i = @ + 1,
                                  !.new_events = @ \o Collect(installation, out)],
                     pc |-> "agents"]

\* _execute_agent and the except branch of process_event for one installation:
\* what the session holds afterwards and what the frame goes on with.
execute_agent(s, f, installation, out) ==
  LET event == f.event
  IN  IF out.raised
      THEN [sess |-> [s EXCEPT !.traces =
                        @ \o <<traced(event, installation, "failed", "handler")>>
                          \o <<ExecutionTrace(event, installation, "failed", "handler")>>],
            frame |-> [f EXCEPT !.i = @ + 1], pc |-> "agents"]
      ELSE LET s1 == [s EXCEPT !.traces =
                        Append(@, traced(event, installation, "completed", Null))]
               s2 == apply_context_updates(s1, installation, out)
           IN  IF out.tool_executions # <<>>
               THEN [sess |-> s2,
                     frame |-> [f EXCEPT !.result = out, !.t = 1], pc |-> "tools"]
               ELSE [sess |-> s2,
                     frame |-> [f EXCEPT !.i = @ + 1,
                                  !.new_events = @ \o Collect(installation, out)],
                     pc |-> "agents"]

self_loop_never(source_agent, installation) == FALSE

\* process_event, "if source_agent == installation.agent_id: continue".
self_loop(source_agent, installation) == source_agent = installation.agent_id

registered_any(agent_key) == TRUE

\* _execute_agent, "agent = self._agent_registry.get(agent_key)".
registered(agent_key) == agent_key \in AgentRegistry

\* One round of the loop over the subscribed installations (process_event,
\* "for installation in installations"): the self-loop skip, the registry
\* lookup, the handler call and its effects.
dispatch_agent(w) ==
  /\ wk[w].pc = "agents"
  /\ Top(wk[w].stack).i <= Len(Top(wk[w].stack).installations)
  /\ LET f == Top(wk[w].stack)
         installation == f.installations[f.i]
         s == sess[w]
     IN  IF self_loop(f.source_agent, installation)
         THEN /\ wk' = [wk EXCEPT ![w].stack = SetTop(@, [f EXCEPT !.i = @ + 1])]
              /\ UNCHANGED <<sess, calls>>
         ELSE IF ~registered(ManifestKey(installation))
         THEN /\ sess' = [sess EXCEPT ![w].traces =
                            Append(@, ExecutionTrace(f.event, installation,
                                                     "failed", "not registered"))]
              /\ wk' = [wk EXCEPT ![w].stack = SetTop(@, [f EXCEPT !.i = @ + 1])]
              /\ UNCHANGED calls
         ELSE LET context == build_agent_context(s, installation)
              IN  \E out \in handle_event(installation.agent_id,
                                          SDKEvent(f.event_type, f.source_agent,
                                                   f.event.payload), context) :
                    LET r == execute_agent(s, f, installation, out)
                    IN  /\ sess' = [sess EXCEPT ![w] = r.sess]
                        /\ wk' = [wk EXCEPT ![w].stack = SetTop(@, r.frame),
                                            ![w].pc = r.pc]
                        /\ calls' = Append(calls,
                             [worker |-> w, event_id |-> f.event.id,
                              installation_id |-> installation.id,
                              agent_id |-> installation.agent_id,
                              context |-> context, result |-> out])
  /\ UNCHANGED <<db, cache, ctr, toolRuns, onboardCalls, responses, nReq, mode>>

next_tool_abort(f, installation, raised) ==
  IF raised
  THEN [f EXCEPT !.i = @ + 1, !.t = 1]
  ELSE IF f.t = Len(f.result.tool_executions)
  THEN [f EXCEPT !.i = @ + 1, !.t = 1,
          !.new_events = @ \o Collect(installation, f.result)]
  ELSE [f EXCEPT !.t = @ + 1]

\* process_event, the end of one round of "for tool_exec in
\* result.tool_executions": the exception of execute_tool is caught and
\* printed, so with or without it the frame goes to the next request, and
\* after the last one collects the result's events and goes to the next
\* installation.
next_tool(f, installation, raised) ==
  IF f.t = Len(f.result.tool_executions)
  THEN [f EXCEPT !.i = @ + 1, !.t = 1,
          !.new_events = @ \o Collect(installation, f.result)]
  ELSE [f EXCEPT !.t = @ + 1]

\* One round of "for tool_exec in result.tool_executions": execute_tool for
\* the request at hand, then next_tool.
submit_tool(w) ==
  /\ wk[w].pc = "tools"
  /\ LET f == Top(wk[w].stack)
         installation == f.installations[f.i]
         tool_exec == f.result.tool_executions[f.t]
     IN  \E outcome \in ToolOutcomes(tool_exec.tool_id) :
           LET r == execute_tool(db, sess[w], ctr, toolRuns, f.user_id,
                                 installation.agent_id, installation.id,
                                 tool_exec.tool_id, tool_exec.payload, outcome)
           IN  /\ db' = r.db
               /\ sess' = [sess EXCEPT ![w] = r.sess]
               /\ ctr' = r.ctr
               /\ toolRuns' = r.toolRuns
               /\ wk' = [wk EXCEPT
                    ![w].stack = SetTop(@, next_tool(f, installation, r.raised)),
                    ![w].pc = IF next_tool(f, installation, r.raised).i # f.i
                              THEN "agents" ELSE "tools"]
  /\ UNCHANGED <<cache, calls, onboardCalls, responses, nReq, mode>>

\* process_event after the loop: self.db.commit().
commit_frame(w) ==
  /\ wk[w].pc = "agents"
  /\ Top(wk[w].stack).i > Len(Top(wk[w].stack).installations)
  /\ db' = Commit(db, sess[w])
  /\ sess' = [sess EXCEPT ![w] = EmptySession]
  /\ wk' = [wk EXCEPT ![w].pc = "cascade"]
  /\ UNCHANGED <<cache, ctr, calls, toolRuns, onboardCalls, responses, nReq, mode>>

same_hop(event_hop) == event_hop

\* process_event, the hop of the recursive call: "event_hop=event_hop + 1".
next_hop(event_hop) == event_hop + 1

next_event_reversed(f) == f.new_events[Len(f.new_events) + 1 - f.c]

\* process_event, "for new_event_data in new_events": the buffered event of
\* this round, in the order the events were collected.
next_event(f) == f.new_events[f.c]

\* One round of "for new_event_data in new_events": the recursive
\* process_event at event_hop + 1; its exception is caught and printed.
cascade_event(w) ==
  /\ wk[w].pc = "cascade"
  /\ Top(wk[w].stack).c <= Len(Top(wk[w].stack).new_events)
  /\ \E expired \in BOOLEAN :
       LET f == Top(wk[w].stack)
           ne == next_event(f)
           r == process_event(sess[w], cache, ctr, f.user_id, ne.event_type,
                              ne.payload, ne.source_agent, next_hop(f.event_hop),
                              expired)
       IN  /\ sess' = [sess EXCEPT ![w] = r.sess]
           /\ ctr' = r.ctr
           /\ wk' = IF r.raised
                    THEN [wk EXCEPT ![w].stack = SetTop(@, [f EXCEPT !.c = @ + 1])]
                    ELSE [wk EXCEPT ![w].stack = Append(@, r.frame),
                                    ![w].pc = "fill"]
  /\ UNCHANGED <<db, cache, calls, toolRuns, onboardCalls, responses, nReq, mode>>

\* "return event" of a recursive process_event: back in the caller's loop
\* over its new events.
return_frame(w) ==
  /\ wk[w].pc = "cascade"
  /\ Top(wk[w].stack).c > Len(Top(wk[w].stack).new_events)
  /\ Len(wk[w].stack) > 1
  /\ LET caller == wk[w].stack[Len(wk[w].stack) - 1]
     IN  wk' = [wk EXCEPT ![w].stack =
                  SetTop(Pop(@), [caller EXCEPT !.c = @ + 1])]
  /\ UNCHANGED <<db, sess, cache, ctr, calls, toolRuns, onboardCalls, responses,
                 nReq, mode>>

\* "return event" of the outermost process_event: routes.create_event answers.
event_created(w) ==
  /\ wk[w].pc = "cascade"
  /\ Top(wk[w].stack).c > Len(Top(wk[w].stack).new_events)
  /\ Len(wk[w].stack) = 1
  /\ Respond(w, "ok")
  /\ UNCHANGED <<db, cache, ctr, calls, toolRuns, onboardCalls, nReq, mode>>

\* ------------------------------------------------------------- installation
AgentInstallation(id, user_id, agent_id, version) ==
  [id |-> id, user_id |-> user_id, agent_id |-> agent_id, version |-> version,
   status |-> "active"]

\* The install requests tried: each registered agent with inputs its onboard
\* accepts or refuses, and one request for every input error.
InstallRequests ==
  ({"u1"} \X {"A", "B", "Z"} \X {"1.0.0"} \X {"in"})
  \cup {<<"u1", "A", "1.0.0", "bad">>, <<"u1", "N", "1.0.0", "in">>, <<"u1", "D", "1.0.0", "in">>,
        <<"u1", "A", "2.0.0", "in">>, <<"nobody", "A", "1.0.0", "in">>,
        <<"u2", "B", "1.0.0", "in">>}

already_installed_unchecked(s, user_id, agent_id, version) == FALSE

\* install_agent, "Check if already installed": a row of the installations
\* table for (user_id, agent_id, version), whatever its status.
already_installed(s, user_id, agent_id, version) ==
  \E x \in Range(ViewInstallations(s)) :
    x.user_id = user_id /\ x.agent_id = agent_id /\ x.version = version

\* OrchestratorService.install_agent, the checks in the order of the code:
\* the error it raises, or "none".
install_error(s, user_id, agent_id, version) ==
  IF ~(<<agent_id, version>> \in ManifestKeys
       /\ ManifestStatus(<<agent_id, version>>) = "active")
  THEN "ManifestNotFound"
  ELSE IF already_installed(s, user_id, agent_id, version)
  THEN "AlreadyInstalled"
  ELSE IF <<agent_id, version>> \notin AgentRegistry
  THEN "AgentNotRegistered"
  ELSE IF user_id \notin Users
  THEN "UserNotFound"
  ELSE "none"

install_rows_no_context(installation, agent_memory) ==
  [EmptySession EXCEPT !.installations = <<installation>>]

\* install_agent, what its session holds before the commit: the installation
\* and the AgentContext row with the memory that onboard returned.
install_rows(installation, agent_memory) ==
  [EmptySession EXCEPT !.installations = <<installation>>,
                       !.memory = installation.id :> agent_memory]

\* routes.install_agent / OrchestratorService.install_agent up to its commit:
\* the checks, the installation added and flushed, agent.onboard() called and
\* the agent_context row added.  An error, also of onboard, ends the request.
install_agent(w) ==
  /\ CanStart(w)
  /\ nReq' = nReq + 1
  /\ \E q \in InstallRequests :
       LET user_id == q[1]
           agent_id == q[2]
           version == q[3]
           inputs == q[4]
           req == Req("install_agent", user_id, agent_id, version, Null, 0, Null)
           error == install_error(EmptySession, user_id, agent_id, version)
           installation == AgentInstallation(ctr.inst + 1, user_id, agent_id, version)
           shared == db.shared[user_id]
           initial_context ==
             [shared_context |-> IF shared.present THEN shared.context ELSE EmptyMap,
              agent_memory |-> EmptyMap, recent_events |-> <<>>]
       IN  IF error # "none"
           THEN /\ responses' = Append(responses, [req |-> req, result |-> error])
                /\ UNCHANGED <<db, sess, wk, ctr, onboardCalls>>
           ELSE \E ob \in onboard(agent_id, inputs, initial_context) :
                  /\ onboardCalls' = Append(onboardCalls,
                       [user_id |-> user_id, agent_id |-> agent_id,
                        version |-> version])
                  /\ ctr' = [ctr EXCEPT !.inst = @ + 1]
                  /\ IF ob.raised
                     THEN /\ responses' = Append(responses,
                                [req |-> req, result |-> "OnboardError"])
                          /\ db' = Rollback(db,
                                [EmptySession EXCEPT
                                   !.installations = <<installation>>])
                          /\ UNCHANGED <<sess, wk>>
                     ELSE /\ sess' = [sess EXCEPT ![w] =
                                install_rows(installation, ob.agent_memory)]
                          /\ wk' = [wk EXCEPT ![w] =
                                [pc |-> "install_commit", stack |-> <<>>,
                                 req |-> req]]
                          /\ UNCHANGED <<db, responses>>
  /\ UNCHANGED <<cache, calls, toolRuns, mode>>

\* install_agent: self.db.commit().
install_commit(w) ==
  /\ wk[w].pc = "install_commit"
  /\ db' = Commit(db, sess[w])
  /\ sess' = [sess EXCEPT ![w] = EmptySession]
  /\ wk' = [wk EXCEPT ![w].pc = "install_invalidate"]
  /\ UNCHANGED <<cache, ctr, calls, toolRuns, onboardCalls, responses, nReq, mode>>

\* install_agent: the cache key of the user's installations is deleted and
\* the installation returned.
install_return(w) ==
  /\ wk[w].pc = "install_invalidate"
  /\ cache' = invalidate_user_installations(cache, wk[w].req.user_id)
  /\ Respond(w, "ok")
  /\ UNCHANGED <<db, ctr, calls, toolRuns, onboardCalls, nReq, mode>>

\* ------------------------------------------------------------------ approval
\* ApproveToolRequest.decision is any string: the decisions tried.
Decisions == {"approved", "rejected", "maybe"}

HumanApproval(tool_execution_id, reviewer_id, decision) ==
  [tool_execution_id |-> tool_execution_id, reviewer_id |-> reviewer_id,
   decision |-> decision]

not_pending_never(status) == FALSE

\* approve_tool_execution, its guard: "if execution.status != 'pending'".
not_pending(status) == status # "pending"

\* ToolExecutor.approve_tool_execution up to its commit: the execution must
\* exist and be pending; the approval is added; "approved" sets approved and
\* runs the tool, anything else sets rejected.
approve_tool_execution(s, runs, execution_id, reviewer_id, decision, outcome) ==
  IF execution_id \notin DOMAIN ViewExecs(s)
  THEN [error |-> "NotFound", sess |-> s, toolRuns |-> runs]
  ELSE IF not_pending(ViewExecs(s)[execution_id].status)
  THEN [error |-> "InvalidState", sess |-> s, toolRuns |-> runs]
  ELSE LET execution == ViewExecs(s)[execution_id]
           s1 == [s EXCEPT !.approvals =
                    Append(@, HumanApproval(execution_id, reviewer_id, decision))]
           set(status) ==
             [s1 EXCEPT !.execs =
                Overlay(@, execution_id :> set_status(execution, status))]
       IN  IF decision = "approved"
           THEN IF execution.tool_id \in DOMAIN ToolDefinitions
                THEN LET run == execute_tool_internal(set("approved"), runs,
                                                      execution_id, outcome)
                     IN  [error |-> IF run.raised THEN "ToolError" ELSE "none",
                          sess |-> run.sess, toolRuns |-> run.toolRuns]
                ELSE [error |-> "none", sess |-> set("approved"), toolRuns |-> runs]
           ELSE [error |-> "none", sess |-> set("rejected"), toolRuns |-> runs]

\* routes.approve_tool: approve_tool_execution with the caller as reviewer.
\* An error ends the request before any commit.
approve_tool(w) ==
  /\ CanStart(w)
  /\ nReq' = nReq + 1
  /\ \E execution_id \in (DOMAIN db.execs) \cup {0}, user_id \in Reviewers,
        decision \in Decisions :
       \E outcome \in ToolOutcomes(IF execution_id \in DOMAIN db.execs
                                   THEN db.execs[execution_id].tool_id ELSE Null) :
         LET req == Req("approve_tool", user_id, Null, Null, Null, execution_id,
                        decision)
             r == approve_tool_execution(EmptySession, toolRuns, execution_id,
                                         user_id, decision, outcome)
         IN  /\ toolRuns' = r.toolRuns
             /\ IF r.error # "none"
                THEN /\ responses' = Append(responses,
                                            [req |-> req, result |-> r.error])
                     /\ UNCHANGED <<sess, wk>>
                ELSE /\ sess' = [sess EXCEPT ![w] = r.sess]
                     /\ wk' = [wk EXCEPT ![w] =
                                 [pc |-> "approve_commit", stack |-> <<>>,
                                  req |-> req]]
                     /\ UNCHANGED responses
  /\ UNCHANGED <<db, cache, ctr, calls, onboardCalls, mode>>

\* approve_tool_execution: self.db.commit() and the execution returned.
approve_commit(w) ==
  /\ wk[w].pc = "approve_commit"
  /\ db' = Commit(db, sess[w])
  /\ Respond(w, "ok")
  /\ UNCHANGED <<cache, ctr, calls, toolRuns, onboardCalls, nReq, mode>>

\* ------------------------------------------------------------- specification
\* The agents a user has installed when the run begins, in installation order.
\* N was installed by a process that had it registered.
Installed ==
  {<<>>, <<"A", "B">>, <<"B", "A">>, <<"Z">>, <<"N", "A">>, <<"T">>,
   <<"health_goal_agent", "cooking_agent", "reminder_agent">>}
InstalledConc == {<<"B">>, <<"Z">>, <<"A", "Y", "Z">>}
InstalledFair == {<<"A", "B">>, <<"Z">>}

InitDb(agents, shared) ==
  [installations |->
     [k \in DOMAIN agents |-> AgentInstallation(k, "u1", agents[k], "1.0.0")],
   memory |-> [k \in DOMAIN agents |-> ("inputs" :> "in")],
   shared |-> [u \in Users |-> shared],
   events |-> <<>>, traces |-> <<>>, execs |-> <<>>, approvals |-> <<>>]

\* An empty event log; the user's shared_context row missing, or empty as
\* create_test_user makes it.
InitState(installed) ==
  /\ \E agents \in installed :
       /\ \E shared \in {[present |-> FALSE, context |-> EmptyMap],
                         [present |-> TRUE, context |-> EmptyMap]} :
            db = InitDb(agents, shared)
       /\ ctr = [event |-> 0, inst |-> Len(agents), exec |-> 0]
  /\ sess = [w \in Workers |-> EmptySession]
  /\ cache = [installations |-> [u \in Users |-> CacheMiss], manifests |-> {},
              deleted |-> <<>>]
  /\ wk = [w \in Workers |-> Idle]
  /\ calls = <<>>
  /\ toolRuns = <<>>
  /\ onboardCalls = <<>>
  /\ responses = <<>>
  /\ nReq = 0

Init ==
  /\ InitState(Installed)
  /\ mode = [overlap |-> FALSE, requests |-> MaxRequests]

\* The state in which create_event(u1, job, p0) has left a user whose only
\* installation is Z: notify has run, the execution of pay awaits approval.
AfterJob ==
  LET installation == AgentInstallation(1, "u1", "Z", "1.0.0")
      job == [id |-> 1, user_id |-> "u1", event_type |-> "job",
              source_agent |-> Null, payload |-> "p0", created_at |-> 1,
              event_hop |-> 0]
      done == [id |-> 2, user_id |-> "u1", event_type |-> "done",
               source_agent |-> "Z", payload |-> "pZ", created_at |-> 2,
               event_hop |-> 1]
      context == [shared_context |-> EmptyMap,
                  agent_memory |-> ("inputs" :> "in"),
                  recent_events |-> <<job>>]
      result == CHOOSE out \in handle_event("Z", SDKEvent("job", Null, "p0"), context) : TRUE
      notify == ToolExecution(1, "u1", "Z", 1, "notify", "n", "pending")
      pay == ToolExecution(2, "u1", "Z", 1, "pay", "p", "pending")
  IN  [db |->
         [installations |-> <<installation>>,
          memory |-> <<DictUpdate(("inputs" :> "in"), result.agent_memory_updates)>>,
          shared |-> [u \in Users |->
                       [present |-> TRUE, context |-> result.shared_context_updates]],
          events |-> <<job, done>>,
          traces |-> <<traced(job, installation, "completed", Null)>>,
          execs |-> <<set_status(set_status(notify, "executing"), "completed"), pay>>,
          approvals |-> <<>>],
       cache |-> [installations |-> [u \in Users |-> CacheHit(<<installation>>)],
                  manifests |-> {<<"Z", "1.0.0">>}, deleted |-> <<>>],
       ctr |-> [event |-> 2, inst |-> 1, exec |-> 2],
       calls |-> <<[worker |-> 1, event_id |-> 1, installation_id |-> 1,
                    agent_id |-> "Z", context |-> context, result |-> result]>>,
       toolRuns |-> <<[execution_id |-> 1, outcome |-> "ok"]>>,
       responses |-> <<[req |-> Req("create_event", "u1", Null, Null, "job", 0, Null),
                        result |-> "ok"]>>]

\* Overlapping requests: of a user with the installations of InstalledConc
\* and an empty log, or of the user of AfterJob.
InitConc ==
  \/ /\ InitState(InstalledConc)
     /\ mode = [overlap |-> TRUE, requests |-> MaxConcRequests]
  \/ /\ db = AfterJob.db
     /\ cache = AfterJob.cache
     /\ ctr = AfterJob.ctr
     /\ calls = AfterJob.calls
     /\ toolRuns = AfterJob.toolRuns
     /\ responses = AfterJob.responses
     /\ sess = [w \in Workers |-> EmptySession]
     /\ wk = [w \in Workers |-> Idle]
     /\ onboardCalls = <<>>
     /\ nReq = 1
     /\ mode = [overlap |-> TRUE, requests |-> MaxConcRequests + 1]

InitFair ==
  /\ InitState(InstalledFair)
  /\ mode = [overlap |-> FALSE, requests |-> MaxFairRequests]

Next ==
  \/ \E w \in Workers : create_event(w)
  \/ \E w \in Workers : fill_cache(w)
  \/ \E w \in Workers : dispatch_agent(w)
  \/ \E w \in Workers : submit_tool(w)
  \/ \E w \in Workers : commit_frame(w)
  \/ \E w \in Workers : cascade_event(w)
  \/ \E w \in Workers : return_frame(w)
  \/ \E w \in Workers : event_created(w)
  \/ \E w \in Workers : install_agent(w)
  \/ \E w \in Workers : install_commit(w)
  \/ \E w \in Workers : install_return(w)
  \/ \E w \in Workers : approve_tool(w)
  \/ \E w \in Workers : approve_commit(w)

\* Requests served one after another.
Spec == Init /\ [][Next]_vars

\* Requests of two workers overlapping.
SpecConc == InitConc /\ [][Next]_vars

\* What a worker does inside a request it has taken: its thread keeps running.
Step(w) ==
  \/ fill_cache(w)
  \/ dispatch_agent(w)
  \/ submit_tool(w)
  \/ commit_frame(w)
  \/ cascade_event(w)
  \/ return_frame(w)
  \/ event_created(w)
  \/ install_commit(w)
  \/ install_return(w)
  \/ approve_commit(w)

\* Requests served one after another, each worker running on while it can.
SpecFair == InitFair /\ [][Next]_vars /\ \A w \in Workers : WF_vars(Step(w))

\* ------------------------------------------------------------------ claims
\* Every event row and every trace row there is, committed or pending.
AllEvents == Range(db.events) \cup UNION {Range(sess[w].events) : w \in Workers}
AllTraces == Range(db.traces) \cup UNION {Range(sess[w].traces) : w \in Workers}
EventOf(event_id) == CHOOSE e \in AllEvents : e.id = event_id
Frames == UNION {Range(wk[w].stack) : w \in Workers}
LoopDone(f) == f.i > Len(f.installations)
TracesOf(f, installation) ==
  {t \in AllTraces : t.event_id = f.event.id /\ t.installation_id = installation.id}

\* C1 (self-loop prevention): no handler is invoked and no trace is recorded
\* for an agent on an event whose source_agent is that agent; and once the
\* loop of a process_event frame is over, every other installation the frame
\* resolved as subscribed has a trace for the event.
C1_SelfLoopPrevention ==
  /\ \A k \in DOMAIN calls :
       EventOf(calls[k].event_id).source_agent # calls[k].agent_id
  /\ \A t \in AllTraces : EventOf(t.event_id).source_agent # t.agent_id
  /\ \A f \in Frames :
       LoopDone(f) =>
         \A x \in Range(f.installations) :
           x.agent_id # f.source_agent => TracesOf(f, x) # {}

\* An event emitted by B went to a user who has B and A subscribed to it: the
\* loop is over, B was skipped and A has its trace.
C1_Witness ==
  \E f \in Frames :
    /\ f.source_agent # Null
    /\ LoopDone(f)
    /\ \E x \in Range(f.installations) :
         x.agent_id = f.source_agent /\ TracesOf(f, x) = {}
    /\ \E y \in Range(f.installations) :
         y.agent_id # f.source_agent /\ TracesOf(f, y) # {}

\* The installation row is active, of the event's user, and its manifest
\* subscribes the event's type.
SubscribedRow(installation_id, event_id) ==
  \E x \in Range(db.installations) :
    /\ x.id = installation_id
    /\ x.status = "active"
    /\ x.user_id = EventOf(event_id).user_id
    /\ EventOf(event_id).event_type \in Manifest(x.agent_id).subscribed_events

\* C2 (subscription filter): an installation has a trace for an event, or
\* its handler is invoked for it, only if it is an active installation of the
\* event's user whose manifest lists the event's type in subscribed_events.
C2_SubscriptionFilter ==
  /\ \A t \in AllTraces : SubscribedRow(t.installation_id, t.event_id)
  /\ \A k \in DOMAIN calls :
       SubscribedRow(calls[k].installation_id, calls[k].event_id)

\* A committed pong of a user who has A (no pong in its manifest) and B: B has
\* a trace for it, A has none.
C2_Witness ==
  \E e \in Range(db.events) :
    /\ e.event_type = "pong"
    /\ \E x, y \in Range(db.installations) :
         /\ x.user_id = e.user_id /\ y.user_id = e.user_id
         /\ e.event_type \notin Manifest(x.agent_id).subscribed_events
         /\ e.event_type \in Manifest(y.agent_id).subscribed_events
         /\ \E t \in Range(db.traces) :
              t.event_id = e.id /\ t.installation_id = y.id
         /\ \A t \in Range(db.traces) :
              ~(t.event_id = e.id /\ t.installation_id = x.id)

IsPrefix(a, b) == Len(a) <= Len(b) /\ SubSeq(b, 1, Len(a)) = a

\* No event row, committed or pending, is at hop max_event_hops or deeper.
C3_NoDeepEvent == \A e \in AllEvents : e.event_hop < max_event_hops

\* A worker about to make the recursive call at hop max_event_hops or deeper:
\* its step adds no row and commits nothing, and it goes on with the caller's
\* next new event.  No step ever removes a committed event or trace.
C3_Confined ==
  /\ \A w \in Workers :
       ( /\ wk[w].pc = "cascade"
         /\ Top(wk[w].stack).c <= Len(Top(wk[w].stack).new_events)
         /\ Top(wk[w].stack).event_hop + 1 >= max_event_hops
         /\ wk'[w] # wk[w] )
       => /\ db' = db
          /\ sess'[w] = sess[w]
          /\ ctr' = ctr
          /\ wk'[w] = [wk[w] EXCEPT !.stack =
                         SetTop(@, [Top(@) EXCEPT !.c = @ + 1])]
  /\ IsPrefix(db.events, db'.events)
  /\ IsPrefix(db.traces, db'.traces)

\* C3 (depth bound): process_event entered at hop >= max_event_hops (10)
\* raises before it adds its event, so no event exists at such a hop; the
\* exception ends that recursive call only, and what the shallower frames
\* committed stays committed.
C3_DepthBound == []C3_NoDeepEvent /\ [][C3_Confined]_vars

\* The frame at hop 9 has had its recursive call refused and is past it, with
\* the ten events of hops 0..9 committed.
C3_Witness ==
  \E w \in Workers :
    /\ wk[w].pc = "cascade"
    /\ wk[w].stack # <<>>
    /\ LET f == Top(wk[w].stack)
       IN  /\ f.event_hop = max_event_hops - 1
           /\ f.new_events # <<>>
           /\ f.c > Len(f.new_events)
    /\ \A h \in 0..(max_event_hops - 1) :
         \E e \in Range(db.events) : e.event_hop = h

\* The stack of process_event frames of a request is never deeper than
\* max_event_hops.
C4_Bounded == \A w \in Workers : Len(wk[w].stack) <= max_event_hops

\* C4 (termination): a worker that has taken a create_event request gets back
\* to idle, the request answered; the recursion of process_event is never
\* deeper than max_event_hops frames, each with a finite list of new events,
\* also when A's events go to B and B's to A.
C4_Termination ==
  /\ []C4_Bounded
  /\ \A w \in Workers :
       (wk[w].req.op = "create_event") ~> (wk[w].pc = "idle")

\* A create_event request has been answered whose cascade went round the
\* cycle of A and B down to hop 9.
C4_Witness ==
  /\ \A w \in Workers : wk[w].pc = "idle"
  /\ \E k \in DOMAIN responses :
       responses[k].req.op = "create_event" /\ responses[k].result = "ok"
  /\ \E e1, e2 \in Range(db.events) :
       /\ e1.event_hop = max_event_hops - 2 /\ e1.source_agent = "B"
       /\ e2.event_hop = max_event_hops - 1 /\ e2.source_agent = "A"

\* What a handler does with the event of a frame, whatever the context.
BlankContext ==
  [shared_context |-> EmptyMap, agent_memory |-> EmptyMap, recent_events |-> <<>>]
Outcomes(f, installation) ==
  handle_event(installation.agent_id,
               SDKEvent(f.event_type, f.source_agent, f.event.payload),
               BlankContext)
Raises(f, installation) == \A out \in Outcomes(f, installation) : out.raised
Returns(f, installation) == \A out \in Outcomes(f, installation) : ~out.raised
Dispatched(f, installation) ==
  /\ installation.agent_id # f.source_agent
  /\ ManifestKey(installation) \in AgentRegistry

\* The step in which a handler raises: the worker's session holds the same
\* shared-context and memory rows as before, and the loop goes on with the
\* next installation.
C5_Raise ==
  \A w \in Workers :
    ( /\ Len(calls') = Len(calls) + 1
      /\ calls'[Len(calls')].worker = w
      /\ calls'[Len(calls')].result.raised )
    => /\ sess'[w].shared = sess[w].shared
       /\ sess'[w].memory = sess[w].memory
       /\ wk'[w].pc = "agents"
       /\ Top(wk'[w].stack) = [Top(wk[w].stack) EXCEPT !.i = @ + 1]

\* The commit of a frame in which installation a's handler raises and
\* installation b's returns: every update b returned is in the committed
\* shared context and in b's committed memory, a's memory is as it was, a
\* has a failed and no completed trace, b a completed and no failed one.
C5_Commit ==
  \A w \in Workers :
    ( /\ wk[w].pc = "agents"
      /\ wk[w].stack # <<>>
      /\ wk'[w].pc = "cascade" )
    => LET f == Top(wk[w].stack)
           u == f.user_id
       IN  \A a, b \in Range(f.installations) :
             ( /\ Dispatched(f, a) /\ Raises(f, a)
               /\ Dispatched(f, b) /\ Returns(f, b) )
             => /\ \A out \in Outcomes(f, b) :
                     /\ \A k \in DOMAIN out.shared_context_updates :
                          /\ db'.shared[u].present
                          /\ k \in DOMAIN db'.shared[u].context
                          /\ db'.shared[u].context[k] = out.shared_context_updates[k]
                     /\ \A k \in DOMAIN out.agent_memory_updates :
                          /\ b.id \in DOMAIN db'.memory
                          /\ k \in DOMAIN db'.memory[b.id]
                          /\ db'.memory[b.id][k] = out.agent_memory_updates[k]
                /\ db'.memory[a.id] = db.memory[a.id]
                /\ \E t \in Range(db'.traces) :
                     /\ t.event_id = f.event.id /\ t.installation_id = a.id
                     /\ t.status = "failed"
                /\ \A t \in Range(db'.traces) :
                     (t.event_id = f.event.id /\ t.installation_id = a.id)
                       => t.status = "failed"
                /\ \E t \in Range(db'.traces) :
                     /\ t.event_id = f.event.id /\ t.installation_id = b.id
                     /\ t.status = "completed"
                /\ \A t \in Range(db'.traces) :
                     (t.event_id = f.event.id /\ t.installation_id = b.id)
                       => t.status = "completed"

SharedSeen(w) == Overlay(db.shared, sess[w].shared)

\* C6 (permission gate): the step in which the handler of an installation
\* whose manifest has write_shared_context = false is called leaves every
\* user's shared context, as the worker's session sees it, as it was.
C6_PermissionGate ==
  [][\A w \in Workers :
       ( /\ wk[w].pc = "agents"
         /\ wk[w].stack # <<>>
         /\ ~LoopDone(Top(wk[w].stack))
         /\ ~Manifest(Top(wk[w].stack).installations[Top(wk[w].stack).i].agent_id)
               .write_shared_context
         /\ wk'[w] # wk[w] )
       => SharedSeen(w)' = SharedSeen(w)]_vars

\* Every tool_executions row there is, committed or pending.
AllExecs == UNION ({Range(db.execs)} \cup {Range(sess[w].execs) : w \in Workers})
NeedsApproval(x) == ToolDefinitions[x.tool_id] = "true"
RunsOf(execution_id) ==
  {k \in DOMAIN toolRuns : toolRuns[k].execution_id = execution_id}
ApprovalsOf(execution_id) ==
  {k \in DOMAIN db.approvals : db.approvals[k].tool_execution_id = execution_id}

\* A committed execution of a tool that requires approval is pending unless
\* an approval of it is recorded; a rejected one has never been run.
C7_Gated ==
  \A id \in DOMAIN db.execs :
    NeedsApproval(db.execs[id]) =>
      /\ db.execs[id].status # "pending" => ApprovalsOf(id) # {}
      /\ db.execs[id].status = "rejected" => RunsOf(id) = {}
      /\ RunsOf(id) # {} =>
           \A k \in ApprovalsOf(id) : db.approvals[k].decision = "approved"

\* The step is the approve_tool_execution call of a request for this
\* execution with decision "approved".
ApprovedCall(execution_id) ==
  \E w \in Workers :
    /\ wk[w].pc = "idle"
    /\ \/ /\ wk'[w].pc = "approve_commit"
          /\ wk'[w].req.execution_id = execution_id
          /\ wk'[w].req.decision = "approved"
       \/ /\ Len(responses') = Len(responses) + 1
          /\ responses'[Len(responses')].req.op = "approve_tool"
          /\ responses'[Len(responses')].req.execution_id = execution_id
          /\ responses'[Len(responses')].req.decision = "approved"

\* An execution of a tool that requires approval is committed as pending; it
\* leaves pending only by the commit of an approve request for it; and the
\* tool's execute is invoked for it only inside an approved call for it.
C7_Step ==
  /\ \A id \in DOMAIN db'.execs :
       (id \notin DOMAIN db.execs /\ NeedsApproval(db'.execs[id]))
         => db'.execs[id].status = "pending"
  /\ \A id \in DOMAIN db.execs :
       ( /\ NeedsApproval(db.execs[id])
         /\ db.execs[id].status = "pending"
         /\ db'.execs[id].status # "pending" )
       => \E w \in Workers :
            /\ wk[w].pc = "approve_commit"
            /\ wk[w].req.execution_id = id
            /\ wk'[w].pc = "idle"
  /\ \A k \in DOMAIN toolRuns' :
       k \notin DOMAIN toolRuns =>
         \A x \in AllExecs' :
           (x.id = toolRuns'[k].execution_id /\ NeedsApproval(x))
             => ApprovedCall(x.id)

\* C7 (tool gating): the execution of a tool whose definition requires human
\* approval stays pending after execute_tool and through later dispatches;
\* the tool's execute runs for it only in an approve_tool_execution call with
\* decision approved, and never for a rejected execution.
C7_ToolGating == []C7_Gated /\ [][C7_Step]_vars

\* C8 (approval idempotence): for every execution at most one HumanApproval
\* is recorded and the tool's execute is invoked at most once, also when the
\* tool raised in the first approved call.
C8_ApprovalIdempotence ==
  \A id \in DOMAIN db.execs :
    /\ Cardinality(ApprovalsOf(id)) <= 1
    /\ Cardinality(RunsOf(id)) <= 1

SameInstall(x, user_id, agent_id, version) ==
  x.user_id = user_id /\ x.agent_id = agent_id /\ x.version = version

\* For every (user, agent, version) there is at most one installation row,
\* and every installation row has its agent_context row.
C9_OneRow ==
  /\ \A i, j \in DOMAIN db.installations :
       SameInstall(db.installations[i], db.installations[j].user_id,
                   db.installations[j].agent_id, db.installations[j].version)
         => i = j
  /\ \A x \in Range(db.installations) : x.id \in DOMAIN db.memory

\* The step takes the request req.
Started(req) ==
  /\ nReq' = nReq + 1
  /\ \/ /\ Len(responses') = Len(responses) + 1
        /\ responses'[Len(responses')].req = req
     \/ \E w \in Workers :
          wk[w].pc = "idle" /\ wk'[w].pc # "idle" /\ wk'[w].req = req

\* An install_agent call for a (user, agent, version) that has an
\* installation row answers AlreadyInstalled, writes nothing and does not
\* call onboard.
C9_Second ==
  \A q \in InstallRequests :
    LET req == Req("install_agent", q[1], q[2], q[3], Null, 0, Null)
    IN  ( /\ Started(req)
          /\ \E x \in Range(db.installations) : SameInstall(x, q[1], q[2], q[3]) )
        => /\ responses' =
                Append(responses, [req |-> req, result |-> "AlreadyInstalled"])
           /\ db' = db
           /\ sess' = sess
           /\ onboardCalls' = onboardCalls

\* C9 (at-most-once install): after install_agent(U, A, V) has succeeded, the
\* next install_agent(U, A, V) fails with AlreadyInstalled without calling
\* onboard, and there is exactly one installation row and one agent_context
\* row for (U, A, V).
C9_AtMostOnceInstall == []C9_OneRow /\ [][C9_Second]_vars

\* install_agent(U, A, V) answered ok and a later one AlreadyInstalled, with
\* one installation row, one agent_context row and one onboard call for it.
C9_Witness ==
  \E i, j \in DOMAIN responses :
    /\ i < j
    /\ responses[i].req.op = "install_agent"
    /\ responses[i].result = "ok"
    /\ responses[j].req = responses[i].req
    /\ responses[j].result = "AlreadyInstalled"
    /\ LET r == responses[i].req
           rows == {k \in DOMAIN db.installations :
                      SameInstall(db.installations[k], r.user_id, r.agent_id,
                                  r.version)}
       IN  /\ Cardinality(rows) = 1
           /\ \A k \in rows : db.installations[k].id \in DOMAIN db.memory
           /\ Cardinality({k \in DOMAIN onboardCalls :
                             SameInstall(onboardCalls[k], r.user_id, r.agent_id,
                                         r.version)}) = 1

\* C10 (recent-events snapshot): in every handler invocation for an event E
\* the context's recent_events is not empty and its first element is E, as
\* the SDK event the handler is given: type, source agent and payload.
C10_RecentEventsSnapshot ==
  \A k \in DOMAIN calls :
    LET e == EventOf(calls[k].event_id)
        recent == calls[k].context.recent_events
    IN  /\ recent # <<>>
        /\ SDKEvent(recent[1].event_type, recent[1].source_agent, recent[1].payload)
             = SDKEvent(e.event_type, e.source_agent, e.payload)

\* No two event rows, committed or pending, have the same id.
C11_OneRowPerId ==
  \A e1, e2 \in AllEvents : e1.id = e2.id => e1 = e2

\* Every event row there is, with all its fields, is still there after the
\* step; the committed rows stay committed, in their order.
C11_Kept ==
  /\ IsPrefix(db.events, db'.events)
  /\ \A e \in AllEvents : e \in AllEvents'

\* C11 (event immutability): an event process_event has added keeps its id,
\* user_id, event_type, source_agent, payload and created_at and is never
\* removed, whatever is done later: dispatches, cascades, handler calls,
\* installs, tool executions, approvals.
C11_EventImmutability == []C11_OneRowPerId /\ [][C11_Kept]_vars

\* The event of a job is committed, and after it an install and an approval
\* (which ran the tool) have been served.
C11_Witness ==
  /\ Len(responses) = 3
  /\ responses[1].req.op = "create_event" /\ responses[1].result = "ok"
  /\ responses[2].req.op = "install_agent" /\ responses[2].result = "ok"
  /\ responses[3].req.op = "approve_tool" /\ responses[3].result = "ok"
  /\ toolRuns # <<>>
  /\ \E e \in Range(db.events) : e.id = 1 /\ e.event_type = "job"

\* The worker is inside a create_event request of the user: between the
\* first read of its top-level process_event and its last commit and return.
InCascade(w, user_id) ==
  wk[w].req.op = "create_event" /\ wk[w].req.user_id = user_id

\* C12 (per-user serialization): at no time are two create_event cascades of
\* the same user in progress: no two workers are inside create_event requests
\* of one user.
C12_PerUserSerialization ==
  \A w1, w2 \in Workers :
    \A u \in Users : (InCascade(w1, u) /\ InCascade(w2, u)) => w1 = w2

\* The shared context a handler is given for a shared_context row.
ContextOf(shared) == IF shared.present THEN shared.context ELSE EmptyMap

\* C13 (per-event shared-context snapshot): the step that calls a handler
\* gives it, as context.shared_context, the user's shared context as it was
\* when the process_event call of the event began, whatever the earlier
\* installations of the same event have written since.
C13_SharedContextSnapshot ==
  [][\A w \in Workers :
       ( /\ Len(calls') = Len(calls) + 1
         /\ calls'[Len(calls')].worker = w )
       => calls'[Len(calls')].context.shared_context
            = ContextOf(Top(wk[w].stack).shared0)]_vars

\* C14 (frame atomicity): a worker inside a process_event frame commits only
\* by the commit that ends the frame's loop over its installations; every
\* other step of the frame (a handler call, a tool submitted) leaves the
\* committed rows as they were, so what the frame did so far is lost with it.
C14_FrameAtomicity ==
  [][\A w \in Workers :
       ( /\ wk[w].req.op = "create_event"
         /\ wk'[w] # wk[w]
         /\ ~(wk[w].pc = "agents" /\ LoopDone(Top(wk[w].stack))) )
       => db' = db]_vars

\* The edges of the tool state machine, and its terminal states.
Edges ==
  {<<"pending", "executing">>, <<"pending", "approved">>,
   <<"pending", "rejected">>, <<"approved", "executing">>,
   <<"executing", "completed">>, <<"executing", "failed">>}
Terminal == {"completed", "failed", "rejected"}

\* Every execution row began as pending and each status it was given after
\* that follows an edge.
C15_Path ==
  \A x \in AllExecs :
    /\ x.history[1] = "pending"
    /\ x.status = x.history[Len(x.history)]
    /\ \A k \in 1..(Len(x.history) - 1) :
         <<x.history[k], x.history[k + 1]>> \in Edges

\* pending -> executing is taken only for a tool that needs no approval.
C15_Direct ==
  \A x \in AllExecs :
    \A k \in 1..(Len(x.history) - 1) :
      (x.history[k] = "pending" /\ x.history[k + 1] = "executing")
        => ToolDefinitions[x.tool_id] = "false"

\* A row in a terminal state is the same row after the step: committed, or
\* pending in a session and then pending there still or committed.
C15_Final ==
  /\ \A id \in DOMAIN db.execs :
       db.execs[id].status \in Terminal
         => id \in DOMAIN db'.execs /\ db'.execs[id] = db.execs[id]
  /\ \A w \in Workers :
       \A id \in DOMAIN sess[w].execs :
         sess[w].execs[id].status \in Terminal
           => \/ id \in DOMAIN sess'[w].execs
                 /\ sess'[w].execs[id] = sess[w].execs[id]
              \/ id \in DOMAIN db'.execs
                 /\ db'.execs[id] = sess[w].execs[id]

C15_Legal == C15_Path /\ C15_Direct

\* C15 (tool state machine): every status change of a ToolExecution follows
\* pending->executing (tool needing no approval), pending->approved,
\* pending->rejected, approved->executing, executing->completed or
\* executing->failed, and no operation changes an execution that is
\* completed, failed or rejected.
C15_ToolStateMachine == []C15_Legal /\ [][C15_Final]_vars

OptionalApproval(x) == ToolDefinitions[x.tool_id] = "optional"

\* A committed execution of a tool whose approval is optional is pending
\* unless an approval of it is recorded.
C16_Held ==
  \A id \in DOMAIN db.execs :
    (OptionalApproval(db.execs[id]) /\ db.execs[id].status # "pending")
      => ApprovalsOf(id) # {}

\* The tool's execute is invoked for such an execution only inside an
\* approve_tool_execution call for it with decision approved.
C16_Run ==
  \A k \in DOMAIN toolRuns' :
    k \notin DOMAIN toolRuns =>
      \A x \in AllExecs' :
        (x.id = toolRuns'[k].execution_id /\ OptionalApproval(x))
          => ApprovedCall(x.id)

\* C16 (optional approval is gated): execute_tool for a tool whose
\* requires_human_approval is "optional" leaves the execution pending and
\* does not invoke the implementation; it runs only in a later
\* approve_tool_execution with decision approved.
C16_OptionalApprovalGated == []C16_Held /\ [][C16_Run]_vars

\* The step is worker w's execute_tool call for a tool that needs no
\* approval, and the tool's implementation raises or is not registered.
ToolFails(w) ==
  /\ wk[w].pc = "tools"
  /\ wk'[w] # wk[w]
  /\ LET f == Top(wk[w].stack)
         tool_id == f.result.tool_executions[f.t].tool_id
     IN  /\ tool_id \in DOMAIN ToolDefinitions
         /\ ToolDefinitions[tool_id] = "false"
         /\ \/ tool_id \notin ToolRegistry
            \/ /\ Len(toolRuns') = Len(toolRuns) + 1
               /\ toolRuns'[Len(toolRuns')].outcome = "raise"

\* C17 (tool failure containment): when the implementation of a no-approval
\* tool raises, or none is registered, execute_tool returns as it does for a
\* tool that ran: it has committed the execution, here as failed, and the
\* frame goes on with its next tool or its next installation.
C17_ToolFailureContainment ==
  [][\A w \in Workers :
       ToolFails(w) =>
         /\ (ctr.exec + 1) \in DOMAIN db'.execs
         /\ db'.execs[ctr.exec + 1].status = "failed"
         /\ wk'[w].pc \in {"tools", "agents"}]_vars

\* C18 (approved executions reach a terminal state): once an
\* approve_tool_execution call with decision approved on a pending execution
\* has ended, with the tool's result or with the tool's exception, the
\* HumanApproval is recorded and the committed execution is completed, or
\* failed when the tool raised: not pending, approved or executing.
C18_ApprovedReachesTerminal ==
  \A k \in DOMAIN responses :
    LET req == responses[k].req
    IN  ( /\ req.op = "approve_tool"
          /\ req.decision = "approved"
          /\ responses[k].result \notin {"NotFound", "InvalidState"} )
        => /\ req.execution_id \in DOMAIN db.execs
           /\ ApprovalsOf(req.execution_id) # {}
           /\ db.execs[req.execution_id].status \in {"completed", "failed"}
           /\ responses[k].result = "ToolError"
                => db.execs[req.execution_id].status = "failed"

\* The step ends an install_agent request because agent.onboard raised.
OnboardFailed ==
  /\ Len(responses') = Len(responses) + 1
  /\ responses'[Len(responses')].req.op = "install_agent"
  /\ responses'[Len(responses')].result = "OnboardError"

\* A failed onboarding leaves no row, committed or pending, and the cache as
\* it was; installation and agent_context rows are committed only by the
\* commit of an install_agent call whose onboard returned; and an install
\* is refused as AlreadyInstalled only when a committed row is there.
C19_NothingKept ==
  /\ OnboardFailed => (db' = db /\ sess' = sess /\ cache' = cache)
  /\ (db'.installations # db.installations \/ DOMAIN db'.memory # DOMAIN db.memory)
       => \E w \in Workers :
            /\ wk[w].pc = "install_commit"
            /\ wk'[w].pc = "install_invalidate"
            /\ db'.installations = db.installations \o sess[w].installations
  /\ \A q \in InstallRequests :
       LET req == Req("install_agent", q[1], q[2], q[3], Null, 0, Null)
       IN  ( /\ Started(req)
             /\ ~\E x \in Range(db.installations) : SameInstall(x, q[1], q[2], q[3])
             /\ Len(responses') = Len(responses) + 1 )
           => responses'[Len(responses')].result # "AlreadyInstalled"

\* Every handler call and every cached installation is for a committed
\* installation row.
C19_NoGhost ==
  /\ \A k \in DOMAIN calls :
       \E x \in Range(db.installations) : x.id = calls[k].installation_id
  /\ \A u \in Users :
       cache.installations[u].present
         => Range(cache.installations[u].value) \subseteq Range(db.installations)

\* C19 (install rollback on onboarding failure): when agent.onboard raises,
\* install_agent fails and no installation or agent_context row of the call
\* is ever committed; a later install_agent of the same (user, agent,
\* version) is not refused as AlreadyInstalled, and no event is delivered to
\* the aborted installation.
C19_InstallRollback == []C19_NoGhost /\ [][C19_NothingKept]_vars

\* install_agent(u1, A) failed in onboard, the next install_agent(u1, A)
\* succeeded, and a ping was then delivered to the one installation of A.
C19_Witness ==
  /\ Len(responses) = 3
  /\ responses[1].req.op = "install_agent"
  /\ responses[1].result = "OnboardError"
  /\ responses[2].req = responses[1].req
  /\ responses[2].result = "ok"
  /\ responses[3].req.op = "create_event"
  /\ Cardinality({k \in DOMAIN db.installations :
                    SameInstall(db.installations[k], responses[1].req.user_id,
                                responses[1].req.agent_id,
                                responses[1].req.version)}) = 1
  /\ \E k \in DOMAIN calls : calls[k].agent_id = responses[1].req.agent_id

InputErrors ==
  {"ManifestNotFound", "UserNotFound", "AlreadyInstalled", "AgentNotRegistered",
   "InvalidState", "NotFound"}

\* The step is worker w's execute_tool call for a tool_id that has no
\* definition.
ToolNotFound(w) ==
  /\ wk[w].pc = "tools"
  /\ wk'[w] # wk[w]
  /\ LET f == Top(wk[w].stack)
     IN  f.result.tool_executions[f.t].tool_id \notin DOMAIN ToolDefinitions

\* C20 (input errors have no effects): a step in which install_agent or
\* approve_tool_execution fails with an input error, or execute_tool with
\* ToolNotFound, leaves every table, what the sessions hold, the cache, the
\* id counters and the tool and onboard histories as they were.
C20_InputErrorsNoEffects ==
  [][/\ ( /\ Len(responses') = Len(responses) + 1
          /\ responses'[Len(responses')].result \in InputErrors )
        => /\ db' = db /\ sess' = sess /\ cache' = cache /\ ctr' = ctr
           /\ toolRuns' = toolRuns /\ onboardCalls' = onboardCalls
     /\ \A w \in Workers :
          ToolNotFound(w)
            => /\ db' = db /\ sess' = sess /\ cache' = cache /\ ctr' = ctr
               /\ toolRuns' = toolRuns /\ onboardCalls' = onboardCalls]_vars

\* A job whose third tool has no definition has been dispatched (two of its
\* three tools have a row), an approval of its completed execution was
\* refused as InvalidState and an install of the installed agent as
\* AlreadyInstalled.
C20_Witness ==
  /\ Len(responses) = 3
  /\ responses[1].req.op = "create_event" /\ responses[1].result = "ok"
  /\ \E i, j \in 2..3 :
       /\ responses[i].req.op = "approve_tool"
       /\ responses[i].result = "InvalidState"
       /\ responses[j].req.op = "install_agent"
       /\ responses[j].result = "AlreadyInstalled"
  /\ \E k \in DOMAIN calls :
       \E t \in DOMAIN calls[k].result.tool_executions :
         calls[k].result.tool_executions[t].tool_id \notin DOMAIN ToolDefinitions
  /\ Cardinality(DOMAIN db.execs) = 2
  /\ db.approvals = <<>>

\* C21 (installation uniqueness under concurrency): in every state, also
\* after two install_agent calls for one (user, agent_id, version) have
\* overlapped between the existence check and the commit, the committed
\* installations hold at most one row for that (user_id, agent_id, version).
C21_InstallationUniqueness ==
  \A q \in InstallRequests :
    Cardinality({k \in DOMAIN db.installations :
                   SameInstall(db.installations[k], q[1], q[2], q[3])}) <= 1

\* Every create_event request that has ended was answered with its event,
\* and the event is committed.
C22_Answered ==
  \A k \in DOMAIN responses :
    responses[k].req.op = "create_event"
      => /\ responses[k].result = "ok"
         /\ \E e \in Range(db.events) :
              /\ e.user_id = responses[k].req.user_id
              /\ e.event_type = responses[k].req.event_type
              /\ e.event_hop = 0

\* The step dispatches the installation at hand and fails: its agent is not
\* registered, or its handler raises.
AgentFails(w) ==
  /\ wk[w].pc = "agents"
  /\ wk'[w] # wk[w]
  /\ ~LoopDone(Top(wk[w].stack))
  /\ LET f == Top(wk[w].stack)
         x == f.installations[f.i]
     IN  /\ x.agent_id # f.source_agent
         /\ \/ ManifestKey(x) \notin AgentRegistry
            \/ /\ Len(calls') = Len(calls) + 1
               /\ calls'[Len(calls')].result.raised

\* A failing dispatch adds a failed trace of the installation and no
\* completed one, keeps the event, and the loop goes on with the next
\* installation; the commit of the frame publishes the event and the traces.
C22_Local ==
  \A w \in Workers :
    /\ AgentFails(w) =>
         LET f == Top(wk[w].stack)
             x == f.installations[f.i]
             mine == {k \in DOMAIN sess'[w].traces :
                        /\ k > Len(sess[w].traces)
                        /\ sess'[w].traces[k].event_id = f.event.id
                        /\ sess'[w].traces[k].installation_id = x.id}
         IN  /\ mine # {}
             /\ \A k \in mine : /\ sess'[w].traces[k].status = "failed"
                                /\ sess'[w].traces[k].error # Null
             /\ f.event \in AllEvents'
             /\ wk'[w].pc = "agents"
             /\ Top(wk'[w].stack) = [f EXCEPT !.i = @ + 1]
    /\ ( /\ wk[w].pc = "agents"
         /\ wk[w].stack # <<>>
         /\ wk'[w].pc = "cascade" )
       => /\ Top(wk[w].stack).event \in Range(db'.events)
          /\ Range(sess[w].traces) \subseteq Range(db'.traces)

\* C22 (per-agent errors stay local): create_event answers with the
\* committed event also when every subscribed agent fails, by a handler that
\* raises or by an agent that is not registered; each failure is recorded as
\* a failed trace, the other installations are still dispatched and the
\* event stays in the log.
C22_AgentErrorsLocal == []C22_Answered /\ [][C22_Local]_vars

\* A ping was answered whose two subscribers both failed: N is not
\* registered, A's handler raised; both have a committed failed trace and
\* the event has no completed one.
C22_Witness ==
  \E k \in DOMAIN responses :
    /\ responses[k].req.op = "create_event"
    /\ responses[k].result = "ok"
    /\ \E e \in Range(db.events) :
         /\ e.event_hop = 0
         /\ \E t \in Range(db.traces) :
              t.event_id = e.id /\ t.agent_id = "N" /\ t.status = "failed"
         /\ \E t \in Range(db.traces) :
              t.event_id = e.id /\ t.agent_id = "A" /\ t.status = "failed"
         /\ \A t \in Range(db.traces) : t.event_id = e.id => t.status = "failed"

\* The frame of the event is still in its loop over the installations.
Dispatching(event_id) ==
  \E w \in Workers :
    /\ wk[w].pc \in {"agents", "tools"}
    /\ wk[w].stack # <<>>
    /\ Top(wk[w].stack).event.id = event_id

\* The error text of a row: the value of its error column, if it has one.
ErrorOf(row) == IF "error" \in DOMAIN row THEN row.error ELSE Null

\* Once the frame of an event has committed, every handler that raised for
\* it has a committed failed trace with an error.
C23_TraceKept ==
  \A k \in DOMAIN calls :
    (calls[k].result.raised /\ ~Dispatching(calls[k].event_id))
      => \E t \in Range(db.traces) :
           /\ t.event_id = calls[k].event_id
           /\ t.installation_id = calls[k].installation_id
           /\ t.status = "failed"
           /\ ErrorOf(t) # Null

\* Once the operation that ran it has ended, every tool that raised has a
\* committed failed execution row; every committed failed row has an error.
C23_ExecutionKept ==
  /\ \A k \in DOMAIN toolRuns :
       ( /\ toolRuns[k].outcome = "raise"
         /\ \A w \in Workers : toolRuns[k].execution_id \notin DOMAIN sess[w].execs )
       => /\ toolRuns[k].execution_id \in DOMAIN db.execs
          /\ db.execs[toolRuns[k].execution_id].status = "failed"
  /\ \A id \in DOMAIN db.execs :
       db.execs[id].status = "failed" => ErrorOf(db.execs[id]) # Null

\* C23 (durable error record): every handler failure leaves a committed
\* failed trace with a non-null error and every tool failure a committed
\* failed ToolExecution with its error text, readable after the operation
\* that produced them has ended.
C23_DurableErrorRecord == C23_TraceKept /\ C23_ExecutionKept

\* The shared-context updates the handlers returned for an event.
UpdatesFor(event_id) ==
  {calls[k].result.shared_context_updates :
     k \in {j \in DOMAIN calls :
              calls[j].event_id = event_id /\ ~calls[j].result.raised}}

\* A worker adds a cascaded event only with its parent frame committed:
\* the session holds nothing pending and the parent's event is committed.
C24_AfterCommit ==
  \A w \in Workers :
    ( /\ wk[w].pc = "cascade"
      /\ Len(wk'[w].stack) = Len(wk[w].stack) + 1 )
    => /\ sess[w] = EmptySession
       /\ Top(wk[w].stack).event \in Range(db.events)
       /\ Top(wk'[w].stack).event.event_hop = Top(wk[w].stack).event_hop + 1

\* A handler called for a cascaded event is given a shared context that has
\* every key the handlers of the parent frame wrote, with the value written.
C24_SeesParent ==
  \A w \in Workers :
    ( /\ Len(calls') = Len(calls) + 1
      /\ calls'[Len(calls')].worker = w
      /\ Len(wk[w].stack) > 1 )
    => LET parent == wk[w].stack[Len(wk[w].stack) - 1]
           given == calls'[Len(calls')].context.shared_context
       IN  \A u \in UpdatesFor(parent.event.id) :
             \A key \in DOMAIN u :
               key \in DOMAIN given /\ given[key] = u[key]

\* C24 (commit-then-cascade): an emitted event is added and dispatched only
\* after the frame that produced it has committed, and every handler of the
\* cascaded event is given a shared context with all the shared-context
\* updates of the parent frame.
C24_CommitThenCascade == [][C24_AfterCommit /\ C24_SeesParent]_vars

\* M' is M with the patch P laid over it key by key: the keys of P have the
\* values of P, whole, and the other keys of M keep theirs.
ShallowMerged(M, P, M1) ==
  /\ DOMAIN M1 = (DOMAIN M) \cup (DOMAIN P)
  /\ \A k \in DOMAIN P : M1[k] = P[k]
  /\ \A k \in (DOMAIN M) \ (DOMAIN P) : M1[k] = M[k]

\* The agent_context rows a worker's session sees.
MemorySeen(w) == Overlay(db.memory, sess[w].memory)

\* The step calls a handler, which returns: the context it was given is
\* what is stored, and what is stored after the step is the shallow merge of
\* what it returned into what was stored.
C25_Merge ==
  \A w \in Workers :
    ( /\ Len(calls') = Len(calls) + 1
      /\ calls'[Len(calls')].worker = w
      /\ ~calls'[Len(calls')].result.raised )
    => LET call == calls'[Len(calls')]
           u == Top(wk[w].stack).user_id
           id == call.installation_id
           M == ContextOf(SharedSeen(w)[u])
           P == call.result.shared_context_updates
           Q == call.result.agent_memory_updates
       IN  /\ call.context.shared_context = M
           /\ P # EmptyMap =>
                /\ SharedSeen(w)'[u].present
                /\ ShallowMerged(M, P, SharedSeen(w)'[u].context)
           /\ (Q # EmptyMap /\ id \in DOMAIN MemorySeen(w)) =>
                /\ call.context.agent_memory = MemorySeen(w)[id]
                /\ ShallowMerged(MemorySeen(w)[id], Q, MemorySeen(w)'[id])

\* The commit of a frame stores the merged values the session held.
C25_Stored ==
  \A w \in Workers :
    ( /\ wk[w].pc = "agents"
      /\ wk[w].stack # <<>>
      /\ wk'[w].pc = "cascade" )
    => /\ db'.shared = SharedSeen(w)
       /\ db'.memory = MemorySeen(w)

EmittedBy(e, call) ==
  /\ ~call.result.raised
  /\ call.agent_id = e.source_agent
  /\ EventOf(call.event_id).user_id = e.user_id
  /\ EventOf(call.event_id).event_hop + 1 = e.event_hop
  /\ \E j \in DOMAIN call.result.events :
       /\ call.result.events[j].event_type = e.event_type
       /\ call.result.events[j].payload = e.payload

\* C26 (source stamping): an event added by a cascade has as source_agent
\* the agent_id of the installation whose handler emitted it, whatever the
\* handler put into the emitted event; an event added by create_event has
\* none; so every source_agent in the log is the agent_id of an installation
\* of the event's user.
C26_SourceStamping ==
  \A e \in AllEvents :
    /\ e.event_hop = 0 => e.source_agent = Null
    /\ e.event_hop > 0 =>
         /\ \E k \in DOMAIN calls : EmittedBy(e, calls[k])
         /\ \E x \in Range(db.installations) :
              x.user_id = e.user_id /\ x.agent_id = e.source_agent

\* A committed pong was emitted by A, which had named another source in it:
\* the row has source_agent = A.
C26_Witness ==
  \E e \in Range(db.events) :
    /\ e.event_hop = 1
    /\ e.source_agent = "A"
    /\ \E k \in DOMAIN calls :
         /\ EmittedBy(e, calls[k])
         /\ \E j \in DOMAIN calls[k].result.events :
              calls[k].result.events[j].source_agent = "forged"

\* The step is worker w's execute_tool call for a request that fails: the
\* tool_id has no definition, or the tool runs at once and its
\* implementation raises or is not registered.
RequestFails(w) ==
  /\ wk[w].pc = "tools"
  /\ wk'[w] # wk[w]
  /\ LET f == Top(wk[w].stack)
         tool_id == f.result.tool_executions[f.t].tool_id
     IN  \/ tool_id \notin DOMAIN ToolDefinitions
         \/ /\ tool_id \in DOMAIN ToolDefinitions
            /\ ToolDefinitions[tool_id] # "true"
            /\ \/ tool_id \notin ToolRegistry
               \/ /\ Len(toolRuns') = Len(toolRuns) + 1
                  /\ toolRuns'[Len(toolRuns')].outcome = "raise"

\* After a failing request the frame is at the agent's next request, or,
\* after the last one, at the next installation with the agent's events
\* collected; what the request's session and the tables hold of the shared
\* contexts, the memories and the traces is as before.
C27_Continues ==
  \A w \in Workers :
    RequestFails(w) =>
      LET f == Top(wk[w].stack)
          g == Top(wk'[w].stack)
          installation == f.installations[f.i]
      IN  /\ Len(wk'[w].stack) = Len(wk[w].stack)
          /\ IF f.t < Len(f.result.tool_executions)
             THEN /\ wk'[w].pc = "tools"
                  /\ g.i = f.i /\ g.t = f.t + 1 /\ g.result = f.result
             ELSE /\ wk'[w].pc = "agents"
                  /\ g.i = f.i + 1
                  /\ Len(g.new_events) = Len(f.new_events) + Len(f.result.events)
                  /\ \A j \in DOMAIN f.result.events :
                       LET ne == g.new_events[Len(f.new_events) + j]
                       IN  /\ ne.event_type = f.result.events[j].event_type
                           /\ ne.payload = f.result.events[j].payload
                           /\ ne.source_agent = installation.agent_id
          /\ Overlay(db'.shared, sess'[w].shared) = Overlay(db.shared, sess[w].shared)
          /\ Overlay(db'.memory, sess'[w].memory) = Overlay(db.memory, sess[w].memory)
          /\ db'.traces \o sess'[w].traces = db.traces \o sess[w].traces

\* No request is in progress.
AtRest == \A w \in Workers : wk[w].pc = "idle"

\* A handler call that returned tool requests, once its request has ended:
\* its trace is committed as completed, its updates are in the committed
\* memory and shared context, and each event it emitted is in the log.
C27_Kept ==
  AtRest =>
    \A k \in DOMAIN calls :
      LET call == calls[k]
          event == EventOf(call.event_id)
      IN  (~call.result.raised /\ call.result.tool_executions # <<>>) =>
            /\ \E t \in Range(db.traces) :
                 /\ t.event_id = call.event_id
                 /\ t.installation_id = call.installation_id
                 /\ t.status = "completed"
            /\ \A key \in DOMAIN call.result.agent_memory_updates :
                 /\ key \in DOMAIN db.memory[call.installation_id]
                 /\ db.memory[call.installation_id][key] =
                      call.result.agent_memory_updates[key]
            /\ \A key \in DOMAIN call.result.shared_context_updates :
                 /\ key \in DOMAIN db.shared[event.user_id].context
                 /\ db.shared[event.user_id].context[key] =
                      call.result.shared_context_updates[key]
            /\ \A j \in DOMAIN call.result.events :
                 \E e \in Range(db.events) :
                   /\ EmittedBy(e, call)
                   /\ e.event_type = call.result.events[j].event_type

\* The requests of one result reach execute_tool in order: a committed
\* execution of the second tool of Z's result follows the execution of the
\* first, whatever became of that one.
C27_InOrder ==
  \A x \in Range(db.execs) :
    x.tool_id = "pay" =>
      /\ (x.id - 1) \in DOMAIN db.execs
      /\ db.execs[x.id - 1].tool_id = "notify"
      /\ db.execs[x.id - 1].installation_id = x.installation_id

C27_State == C27_Kept /\ C27_InOrder

Deletions(key) == Cardinality({i \in DOMAIN cache.deleted : cache.deleted[i] = key})

\* The install_agent requests of the user that answered with the installation.
InstallsDone(user_id) ==
  {k \in DOMAIN responses : /\ responses[k].req.op = "install_agent"
                            /\ responses[k].req.user_id = user_id
                            /\ responses[k].result = "ok"}

\* Every install_agent that returned has deleted installations:{user_id}.
C28_Installations ==
  \A u \in Users : Deletions(<<"installations", u>>) >= Cardinality(InstallsDone(u))

\* Once the requests have ended, a user whose shared context was written has
\* had shared_context:{user_id} deleted.
C28_SharedContext ==
  AtRest =>
    \A u \in Users :
      (db.shared[u].present /\ db.shared[u].context # EmptyMap)
        => Deletions(<<"shared_context", u>>) >= 1

\* C28 (cache invalidation by writers): every operation that writes a
\* user's installations or shared context has deleted the cache key by the
\* time it returns: install_agent the key installations:{user_id}, a dispatch
\* that changes the shared context the key shared_context:{user_id}.
C28_CacheInvalidation == C28_Installations /\ C28_SharedContext

\* The ids of the installations in a table of installations.
InstallationIds(installations) == {installations[i].id : i \in DOMAIN installations}

\* In the committed state the installations with a memory row are the
\* installations; in every session, those of its view likewise.
C29_Coupled ==
  /\ DOMAIN db.memory = InstallationIds(db.installations)
  /\ \A w \in Workers :
       DOMAIN ViewMemory(sess[w]) = InstallationIds(ViewInstallations(sess[w]))

\* A commit that adds an installation adds its memory row, and a memory row
\* is added by no other step.
C29_SameCommit ==
  (DOMAIN db'.memory) \ (DOMAIN db.memory) =
    InstallationIds(db'.installations) \ InstallationIds(db.installations)

\* C29 (memory/installation coupling): in every committed state an
\* AgentMemory row exists for an installation id if and only if an
\* AgentInstallation with that id exists; install_agent makes both durable in
\* one commit or neither, and no dispatch creates a memory row for an
\* installation that does not exist.
C29_MemoryInstallationCoupling == []C29_Coupled /\ [][C29_SameCommit]_vars

\* An install_agent has returned its installation, whose memory row is
\* committed, and a later handler call has updated the memory of an
\* installation.
C29_Witness ==
  /\ \E k \in DOMAIN responses :
       responses[k].req.op = "install_agent" /\ responses[k].result = "ok"
  /\ ctr.inst \in DOMAIN db.memory
  /\ \E x \in Range(db.installations) : x.id = ctr.inst
  /\ \E i \in DOMAIN db.memory : "seen" \in DOMAIN db.memory[i]

\* C30 (tool allowlist): a ToolExecution exists, and a tool's implementation
\* has been invoked, on behalf of an agent only for a tool_id in the tools of
\* that agent's manifest; a request for a tool outside them creates no
\* ToolExecution.
C30_ToolAllowlist ==
  \A x \in AllExecs : x.tool_id \in Manifest(x.agent_id).tools

\* C31 (approval decisions are well-formed): every HumanApproval has a
\* decision that is approved or rejected, whatever string the request
\* carried; an execution has at most one HumanApproval; and an execution is
\* rejected only if the decision of its HumanApproval is rejected.
C31_WellFormedApprovals ==
  /\ \A k \in DOMAIN db.approvals :
       db.approvals[k].decision \in {"approved", "rejected"}
  /\ \A id \in DOMAIN db.execs :
       /\ Cardinality(ApprovalsOf(id)) <= 1
       /\ db.execs[id].status = "rejected" =>
            \A k \in ApprovalsOf(id) : db.approvals[k].decision = "rejected"

\* The one request so far was create_event(tick) for a user whose only
\* installation is T, which subscribes to tick and answers every tick with a
\* tick; it has ended.
S3_Done ==
  /\ AtRest
  /\ Len(db.installations) = 1
  /\ db.installations[1].agent_id = "T"
  /\ Len(responses) = 1
  /\ responses[1].req.op = "create_event"
  /\ responses[1].req.event_type = "tick"
  /\ responses[1].result = "ok"

\* C32 (scenario S3, depth bound): with the single installed agent
\* subscribing to and emitting tick, one create_event(tick) leaves exactly
\* max_event_hops traces of the agent, the cascade ending at the depth bound.
C32_ScenarioDepthBound ==
  S3_Done =>
    Cardinality({k \in DOMAIN db.traces : db.traces[k].agent_id = "T"})
      = max_event_hops

\* The one request so far was create_event(health_goal_updated) for a user
\* with HealthGoal, Cooking and Reminder installed; it has ended.
S1_Done ==
  /\ AtRest
  /\ [k \in DOMAIN db.installations |-> db.installations[k].agent_id]
       = <<"health_goal_agent", "cooking_agent", "reminder_agent">>
  /\ Len(responses) = 1
  /\ responses[1].req.op = "create_event"
  /\ responses[1].req.event_type = "health_goal_updated"
  /\ responses[1].result = "ok"

\* C33 (scenario S1, cascade of three): with HealthGoal, Cooking and
\* Reminder installed and the two seeded tools, one
\* create_event(health_goal_updated) leaves exactly the events
\* health_goal_updated, meal_plan_created, reminder_sent in this order,
\* exactly two traces, of Cooking and of Reminder, both completed, and
\* exactly two tool executions, create_meal_plan and send_notification.
C33_ScenarioCascadeOfThree ==
  S1_Done =>
    /\ [k \in DOMAIN db.events |-> db.events[k].event_type]
         = <<"health_goal_updated", "meal_plan_created", "reminder_sent">>
    /\ [k \in DOMAIN db.traces |->
          <<db.traces[k].agent_id, db.traces[k].event_id, db.traces[k].status>>]
         = << <<"cooking_agent", db.events[1].id, "completed">>,
              <<"reminder_agent", db.events[2].id, "completed">> >>
    /\ {<<db.execs[id].tool_id, db.execs[id].agent_id>> : id \in DOMAIN db.execs}
         = {<<"create_meal_plan", "cooking_agent">>,
            <<"send_notification", "reminder_agent">>}
    /\ Cardinality(DOMAIN db.execs) = 2

\* Scenario S1 has run to its end: its third event is in the log.
C33_Witness ==
  /\ S1_Done
  /\ Len(db.events) = 3
  /\ db.events[3].event_type = "reminder_sent"
  /\ db.events[3].source_agent = "reminder_agent"
  /\ Cardinality(DOMAIN db.execs) = 2

\* A step of worker w's loop over the buffered events of its top frame: the
\* event dispatched is the frame's buffered event at its position c, added
\* to the log after every event there is; when the recursive call fails, the
\* frame goes on with its next buffered event.
C34_InOrder ==
  \A w \in Workers :
    ( /\ wk[w].pc = "cascade"
      /\ wk'[w] # wk[w]
      /\ Top(wk[w].stack).c <= Len(Top(wk[w].stack).new_events) )
    => LET f == Top(wk[w].stack)
           ne == f.new_events[f.c]
       IN  \/ /\ Len(wk'[w].stack) = Len(wk[w].stack) + 1
              /\ SubSeq(wk'[w].stack, 1, Len(wk[w].stack)) = wk[w].stack
              /\ LET e == Top(wk'[w].stack).event
                 IN  /\ e.event_type = ne.event_type
                     /\ e.payload = ne.payload
                     /\ e.source_agent = ne.source_agent
                     /\ e.event_hop = f.event_hop + 1
                     /\ e \in Range(sess'[w].events)
                     /\ \A x \in AllEvents : x.id < e.id
           \/ /\ f.event_hop + 1 >= max_event_hops
              /\ wk'[w].stack = SetTop(wk[w].stack, [f EXCEPT !.c = @ + 1])
              /\ wk'[w].pc = "cascade"
              /\ AllEvents' = AllEvents

\* A frame moves to its next buffered event, after a recursive call that
\* did not fail, only when the frame of that call has dispatched all of its
\* own buffered events.
C34_SubCascadeFirst ==
  \A w \in Workers :
    (Len(wk'[w].stack) = Len(wk[w].stack) - 1 /\ Len(wk'[w].stack) >= 1)
    => /\ Top(wk[w].stack).c > Len(Top(wk[w].stack).new_events)
       /\ LoopDone(Top(wk[w].stack))
       /\ Top(wk'[w].stack).c = wk[w].stack[Len(wk[w].stack) - 1].c + 1

\* In the log of a single request: B buffers ping and then echo for every
\* pong it handles, so an echo comes after the ping buffered with it and
\* after every event of the cascade below that ping.
C34_DepthFirst ==
  Len(responses) = 0 =>
    \A e2 \in AllEvents :
      e2.event_type = "echo" =>
        /\ \E e1 \in AllEvents :
             /\ e1.event_type = "ping" /\ e1.event_hop = e2.event_hop
             /\ e1.source_agent = "B" /\ e1.id < e2.id
        /\ \A x \in AllEvents : x.event_hop > e2.event_hop => x.id < e2.id

C34_Steps == C34_InOrder /\ C34_SubCascadeFirst

\* C34 (cascade order is emission order, depth-first): the events buffered
\* by a frame are dispatched in the order they were collected; a buffered
\* event and the whole cascade below it are added to the event log before
\* the next buffered event is; and a failed recursive dispatch of one does
\* not keep the next from being dispatched.
C34_CascadeOrder == []C34_DepthFirst /\ [][C34_Steps]_vars

\* A request has ended in whose log an echo, buffered second by B, follows
\* events of deeper hops, and whose deepest pong had both of its buffered
\* events refused at the depth bound.
C34_Witness ==
  /\ AtRest
  /\ Len(responses) = 1
  /\ \E e2 \in Range(db.events), x \in Range(db.events) :
       /\ e2.event_type = "echo"
       /\ x.event_hop > e2.event_hop
       /\ x.id < e2.id
  /\ \E e \in Range(db.events) :
       /\ e.event_type = "pong"
       /\ e.event_hop = max_event_hops - 1
       /\ \E k \in DOMAIN calls :
            /\ calls[k].event_id = e.id /\ calls[k].agent_id = "B"
            /\ Len(calls[k].result.events) = 2

\* How many trace rows of the status there are, committed or pending, for
\* the event and the installation.
TraceCount(event_id, installation_id, status) ==
  LET Is(t) == /\ t.event_id = event_id
               /\ t.installation_id = installation_id
               /\ t.status = status
  IN  Cardinality({k \in DOMAIN db.traces : Is(db.traces[k])})
      + Cardinality({p \in UNION {{w} \X DOMAIN sess[w].traces : w \in Workers} :
                       Is(sess[p[1]].traces[p[2]])})

\* The handler invocations for the event and the installation.
CallsOf(event_id, installation_id) ==
  {k \in DOMAIN calls : /\ calls[k].event_id = event_id
                        /\ calls[k].installation_id = installation_id}

\* For an event and an installation: a handler that returned leaves one
\* completed trace, a handler that raised two failed traces, an installation
\* whose agent is not registered no invocation and one failed trace, and
\* nothing else leaves a trace.
C35_Counts ==
  \A e \in AllEvents, x \in Range(db.installations) :
    LET K == CallsOf(e.id, x.id)
        completed == TraceCount(e.id, x.id, "completed")
        failed == TraceCount(e.id, x.id, "failed")
    IN  /\ Cardinality(K) <= 1
        /\ TraceCount(e.id, x.id, "running") = 0
        /\ \A k \in K :
             IF calls[k].result.raised
             THEN completed = 0 /\ failed = 2
             ELSE completed = 1 /\ failed = 0
        /\ K = {} =>
             /\ completed = 0
             /\ failed <= 1
             /\ failed = 1 =>
                  /\ ManifestKey(x) \notin AgentRegistry
                  /\ SubscribedRow(x.id, e.id)
                  /\ x.agent_id # e.source_agent

\* Once the loop of a frame is over, every installation it resolved as
\* subscribed, other than the event's source, has an invocation or, when its
\* agent is not registered, its one failed trace.
C35_Every ==
  \A f \in Frames :
    LoopDone(f) =>
      \A x \in Range(f.installations) :
        x.agent_id # f.source_agent =>
          IF ManifestKey(x) \in AgentRegistry
          THEN CallsOf(f.event.id, x.id) # {}
          ELSE TraceCount(f.event.id, x.id, "failed") = 1

\* C35 (trace count per event): the traces of an event are one row for each
\* subscribed, non-excluded installation whose handler was invoked, plus one
\* more failed row for each whose handling failed: two failed traces for a
\* handler that raised, one failed trace for an installation whose agent is
\* not registered, one completed trace for a handler that returned.
C35_TraceCount == C35_Counts /\ C35_Every

\* One committed event has the single failed trace of the unregistered N and
\* the two failed traces of A, whose handler raised; another pair of event
\* and installation has its one completed trace.
C35_Witness ==
  /\ \E e \in Range(db.events), n, a \in Range(db.installations) :
       /\ n.agent_id = "N" /\ a.agent_id = "A"
       /\ Cardinality({k \in DOMAIN db.traces :
            db.traces[k].event_id = e.id /\ db.traces[k].installation_id = n.id
              /\ db.traces[k].status = "failed"}) = 1
       /\ Cardinality({k \in DOMAIN db.traces :
            db.traces[k].event_id = e.id /\ db.traces[k].installation_id = a.id
              /\ db.traces[k].status = "failed"}) = 2
  /\ \E t \in Range(db.traces) : t.status = "completed"

\* No committed trace is running, every committed trace that began as
\* running was finished, and so was every trace a session holds while its
\* request is between two dispatches, where its commits are.
C37_Finished ==
  /\ \A t \in Range(db.traces) :
       /\ t.status \in {"completed", "failed"}
       /\ t.history \in {<<"running", "completed">>, <<"running", "failed">>,
                         <<"failed">>}
  /\ \A w \in Workers : \A t \in Range(sess[w].traces) : t.status # "running"

\* A step that commits traces commits none that is running.
C37_Commit ==
  \A k \in DOMAIN db'.traces :
    k \notin DOMAIN db.traces => db'.traces[k].status \in {"completed", "failed"}

\* C37 (no running trace is ever durable): every committed trace is
\* completed or failed; a trace recorded as running is finished before the
\* next commit of its session, the commit inside execute_tool and the commit
\* that ends the frame.
C37_NoRunningTraceDurable == []C37_Finished /\ [][C37_Commit]_vars

\* The commit inside execute_tool has made durable the trace of the agent
\* whose tool requests are being submitted: it began as running and is
\* committed as completed while its frame is still in its loops.
C37_Witness ==
  \E w \in Workers :
    /\ wk[w].pc = "tools"
    /\ \E t \in Range(db.traces) :
         /\ t.event_id = Top(wk[w].stack).event.id
         /\ t.history = <<"running", "completed">>

\* The approve requests for the execution, with decision approved, that
\* answered with the execution.
ApprovedOk(execution_id) ==
  {k \in DOMAIN responses : /\ responses[k].req.op = "approve_tool"
                            /\ responses[k].req.execution_id = execution_id
                            /\ responses[k].req.decision = "approved"
                            /\ responses[k].result = "ok"}

AllInstallations ==
  Range(db.installations) \cup UNION {Range(sess[w].installations) : w \in Workers}

\* What the tables and the sessions hold of one user: the shared context,
\* the events, traces, tool executions and installations, and the memory of
\* each of the installations.
UserData(u) ==
  LET mine == {x.id : x \in {y \in AllInstallations : y.user_id = u}}
  IN  [shared |-> <<db.shared[u],
                    [w \in Workers |->
                       IF u \in DOMAIN sess[w].shared THEN sess[w].shared[u]
                       ELSE Null]>>,
       events |-> {e \in AllEvents : e.user_id = u},
       traces |-> {t \in AllTraces : EventOf(t.event_id).user_id = u},
       execs |-> {x \in AllExecs : x.user_id = u},
       installations |-> {x \in AllInstallations : x.user_id = u},
       memory |-> <<[i \in mine \cap DOMAIN db.memory |-> db.memory[i]],
                    [w \in Workers |->
                       [i \in mine \cap DOMAIN sess[w].memory |-> sess[w].memory[i]]]>>]

\* The memories as worker w's session sees them.
MemorySeenBy(w) == Overlay(db.memory, sess[w].memory)

\* A step of a create_event request of worker w leaves the data of every
\* other user as it was; it changes the memory of an installation only when
\* it is the step in which the handler of that installation returned; and
\* the handler it invokes is given the memory of its own installation.
C38_Cascade ==
  \A w \in Workers :
    ( /\ wk'[w] # wk[w]
      /\ "create_event" \in {wk[w].req.op, wk'[w].req.op} )
    => LET req == IF wk[w].req.op = "create_event" THEN wk[w].req ELSE wk'[w].req
           returned(i) ==
             /\ Len(calls') = Len(calls) + 1
             /\ calls'[Len(calls')].installation_id = i
             /\ calls'[Len(calls')].worker = w
             /\ ~calls'[Len(calls')].result.raised
       IN  /\ \A u \in Users \ {req.user_id} : UserData(u)' = UserData(u)
           /\ DOMAIN MemorySeenBy(w)' = DOMAIN MemorySeenBy(w)
           /\ \A i \in DOMAIN MemorySeenBy(w) :
                MemorySeenBy(w)'[i] # MemorySeenBy(w)[i] => returned(i)
           /\ Len(calls') = Len(calls) + 1 =>
                LET call == calls'[Len(calls')]
                IN  /\ call.context.agent_memory = MemorySeenBy(w)[call.installation_id]
                    /\ \E x \in AllInstallations :
                         /\ x.id = call.installation_id
                         /\ x.user_id = req.user_id

\* A step of an install_agent request changes no shared context, no event
\* and no memory of an installation there was.
C38_Install ==
  ( \/ \E w \in Workers :
         /\ wk'[w] # wk[w]
         /\ "install_agent" \in {wk[w].req.op, wk'[w].req.op}
    \/ /\ Len(responses') = Len(responses) + 1
       /\ responses'[Len(responses')].req.op = "install_agent" )
  => /\ db'.shared = db.shared
     /\ \A w \in Workers : sess'[w].shared = sess[w].shared
     /\ AllEvents' = AllEvents
     /\ \A i \in DOMAIN db.memory : db'.memory[i] = db.memory[i]

\* C38 (isolation of a dispatch): a create_event cascade of a user changes
\* only that user's data, never another user's shared context, events,
\* traces, tool executions, installations or agent memories; within the user
\* it changes the memory only of installations whose handler returned in
\* the cascade, each handler being given only its own installation's memory;
\* install_agent changes no shared context, no event and no other
\* installation's memory.
C38_DispatchIsolation == [][C38_Cascade /\ C38_Install]_vars

\* u2 has an installation with its memory and a shared context written by
\* its own cascade, and afterwards a cascade of u1 has run handlers that
\* returned.
C38_Witness ==
  /\ db.shared["u2"].present /\ db.shared["u2"].context # EmptyMap
  /\ \E x \in Range(db.installations) :
       /\ x.user_id = "u2"
       /\ "seen" \in DOMAIN db.memory[x.id]
  /\ \E e1, e2 \in Range(db.events) :
       /\ e1.user_id = "u1" /\ e2.user_id = "u2" /\ e2.id < e1.id
       /\ \E k \in DOMAIN calls :
            calls[k].event_id = e1.id /\ ~calls[k].result.raised
       /\ \E t \in Range(db.traces) : t.event_id = e1.id

\* The handler returned a result whose status is not completed, or whose
\* error is set.
NotCompleted(result) ==
  ~result.raised /\ (result.status # "completed" \/ result.error # Null)

\* The step in which a handler returns such a result: its trace is added as
\* completed and no other, its shared-context and memory updates are in the
\* worker's session, and the frame goes on with the result's tool requests.
C39_Step ==
  \A w \in Workers :
    ( /\ wk[w].pc = "agents"
      /\ Len(calls') = Len(calls) + 1
      /\ calls'[Len(calls')].worker = w
      /\ NotCompleted(calls'[Len(calls')].result) )
    => LET call == calls'[Len(calls')]
           out == call.result
           f == Top(wk[w].stack)
           g == Top(wk'[w].stack)
           u == f.user_id
       IN  /\ Len(sess'[w].traces) = Len(sess[w].traces) + 1
           /\ sess'[w].traces[Len(sess'[w].traces)].status = "completed"
           /\ sess'[w].traces[Len(sess'[w].traces)].installation_id = call.installation_id
           /\ \A key \in DOMAIN out.shared_context_updates :
                /\ key \in DOMAIN SharedSeen(w)'[u].context
                /\ SharedSeen(w)'[u].context[key] = out.shared_context_updates[key]
           /\ \A key \in DOMAIN out.agent_memory_updates :
                /\ key \in DOMAIN MemorySeenBy(w)'[call.installation_id]
                /\ MemorySeenBy(w)'[call.installation_id][key]
                     = out.agent_memory_updates[key]
           /\ IF out.tool_executions # <<>>
              THEN /\ wk'[w].pc = "tools"
                   /\ g.result = out /\ g.t = 1 /\ g.i = f.i
              ELSE /\ wk'[w].pc = "agents"
                   /\ g.i = f.i + 1
                   /\ Len(g.new_events) = Len(f.new_events) + Len(out.events)

\* Once the requests have ended, such a result has its completed trace
\* committed and no failed one, each of its events in the log, and an
\* execution for each of its tool requests that names a defined tool.
C39_Kept ==
  AtRest =>
    \A k \in DOMAIN calls :
      NotCompleted(calls[k].result) =>
        LET call == calls[k]
        IN  /\ \E t \in Range(db.traces) :
                 /\ t.event_id = call.event_id
                 /\ t.installation_id = call.installation_id
                 /\ t.status = "completed"
            /\ \A t \in Range(db.traces) :
                 (t.event_id = call.event_id /\ t.installation_id = call.installation_id)
                   => t.status = "completed"
            /\ \A j \in DOMAIN call.result.events :
                 \E e \in Range(db.events) :
                   /\ EmittedBy(e, call)
                   /\ e.event_type = call.result.events[j].event_type
            /\ \A j \in DOMAIN call.result.tool_executions :
                 call.result.tool_executions[j].tool_id \in DOMAIN ToolDefinitions =>
                   \E x \in Range(db.execs) :
                     /\ x.tool_id = call.result.tool_executions[j].tool_id
                     /\ x.installation_id = call.installation_id

\* C39 (AgentResult.status is not consulted): when a handler returns,
\* without raising, a result whose status is failed or pending_approval or
\* whose error is set, its shared-context and memory updates are applied,
\* its tool requests submitted, its events cascaded and its trace recorded
\* as completed, as for a result with status completed.
C39_StatusNotConsulted == []C39_Kept /\ [][C39_Step]_vars

\* A request has ended in which Z returned a result with status failed and
\* an error: its trace is committed as completed, its event is in the log
\* and its tool executions exist; and one in which it returned
\* pending_approval.
C39_Witness ==
  /\ AtRest
  /\ \E k \in DOMAIN calls :
       /\ calls[k].result.status = "failed"
       /\ calls[k].result.error # Null
       /\ \E t \in Range(db.traces) :
            t.event_id = calls[k].event_id /\ t.status = "completed"
       /\ \E e \in Range(db.events) : EmittedBy(e, calls[k])
       /\ \E x \in Range(db.execs) : x.installation_id = calls[k].installation_id
  /\ \E k \in DOMAIN calls : calls[k].result.status = "pending_approval"


\* The successful installs answered so far: the requests install_agent
\* returned an installation for.
C40_Returned ==
  {responses[k].req : k \in {j \in DOMAIN responses :
      /\ responses[j].req.op = "install_agent"
      /\ responses[j].result = "ok"}}

\* The list under installations:{user_id} holds an installation of the agent
\* and version.
C40_Listed(user_id, agent_id, version) ==
  \E x \in Range(cache.installations[user_id].value) :
    x.agent_id = agent_id /\ x.version = version

\* C40 (installs are visible to later dispatches): once install_agent(U, A, V)
\* has returned successfully, the cache holds no list for U from before the
\* install: the key installations:{U} is either absent or holds a list with
\* the new installation, so a dispatch for U that starts afterwards resolves
\* its subscribers from a list that contains it, also when another dispatch
\* read the list from the store before the install committed and wrote it to
\* the cache after the install's invalidation.
C40_InstallVisible ==
  \A q \in C40_Returned :
    cache.installations[q.user_id].present
      => C40_Listed(q.user_id, q.agent_id, q.version)

====
